---- MODULE Spec2Model ----
(***************************************************************************)
(* Session orchestration of the ICD-11 multi-agent interview simulator.    *)
(*                                                                         *)
(* One session is followed through its two drivers:                        *)
(*   - the REST endpoints of apps/api/routers/sessions.py, which call the  *)
(*     node functions of core/orchestration/nodes.py directly on the dict  *)
(*     held in app_state.sessions, and                                     *)
(*   - the LangGraph graph of core/orchestration/graph.py, which runs the  *)
(*     same node functions one node per step.                              *)
(* Generated texts (LLM output, mock banks, human input) are inputs drawn  *)
(* from a small set of texts whose characters RiskGate really scans.       *)
(***************************************************************************)
EXTENDS Integers, Sequences, FiniteSets, TLC

VARIABLES
    session,    \* the SessionState dict (app_state.sessions[id] / graph state)
    driver,     \* "rest" or "graph": who advances the session
    agents,     \* TRUE iff the AGENTS registry of nodes.py is populated
    node,       \* graph driver: the next node to run ("END" when finished)
    response,   \* REST driver: outcome of the last endpoint call
    hist,       \* history: how many times each finalisation node has run
    resumes,    \* history: how many times the graph was re-invoked on its state
    requests,   \* concurrent REST requests: how many requests were issued
    pc,         \* concurrent REST requests: position of each request thread
    input       \* concurrent REST requests: body.human_input of each thread

vars == <<session, driver, agents, node, response, hist, resumes, requests,
          pc, input>>

----------------------------------------------------------------------------
(* Bounds of the model *)

NumDomains == 2        \* the catalogue is cut to the first NumDomains domains
MaxMaxTurns == 2       \* max_turns is drawn from 0..MaxMaxTurns
MaxTranscript == 5     \* no question is asked once the transcript is this long
MaxTurnCount == 6      \* no question is asked once turn_count is this high
MaxRequests == 2       \* concurrent requests: so many requests are issued in all
MaxResume == 1         \* the graph is re-invoked on its own state at most so often
MaxPipelineRuns == 1   \* the finalize endpoint starts the pipeline at most so often
MaxChecked == 3        \* risk_check is applied to transcripts of at most so many entries
MaxPad == 1            \* RiskGate.check: so many characters before and after the phrase
MaxBackendCalls == 3   \* _generate: the backend's answers to so many calls are drawn
NumShuffled == 4       \* init_session alone shuffles the first so many catalogue domains
MaxHypotheses == 2        \* hypothesis objects in a diagnostician output
MaxClaims == 2            \* evidence_for claims of one hypothesis
MaxRetrieved == 3         \* top_k_dense, top_k_bm25 and the largest top_k_final
MaxExact == 2
MaxTagged == 2
LargeTotal == 20001       \* claims of the one long evidence_for list

----------------------------------------------------------------------------
(* Generic helpers *)

\* Python: x in list
InSeq(x, xs) == \E i \in 1..Len(xs) : xs[i] = x

\* Python: [x for x in xs if x not in ys]
RECURSIVE Without(_, _)
Without(xs, ys) ==
    IF xs = << >> THEN << >>
    ELSE IF InSeq(Head(xs), ys) THEN Without(Tail(xs), ys)
         ELSE <<Head(xs)>> \o Without(Tail(xs), ys)

\* drawing every position independently (random.choices) instead of shuffling
ShufflesWithRepeats(xs) == [1..Len(xs) -> {xs[i] : i \in 1..Len(xs)}]

\* all orderings of the elements of a duplicate-free sequence (random.shuffle)
Shuffles(xs) ==
    { p \in [1..Len(xs) -> {xs[i] : i \in 1..Len(xs)}] :
        \A i, j \in 1..Len(xs) : i # j => p[i] # p[j] }

----------------------------------------------------------------------------
(* Texts and the RiskGate *)

\* the texts that generation, the mock banks and human input can supply
Texts == {"t_empty", "t_safe", "t_risk", "t_dano"}

TextChars(t) ==
    CASE t = "t_empty" -> << >>
      [] t = "t_safe"  -> <<"H", "o", "l", "a">>
      [] t = "t_risk"  -> <<"S", "U", "I", "c", "i", "d", "a">>
      [] t = "t_dano"  -> <<"n", "o", " ", "h", "a", "c", "e", "r", "m", "e", " ",
                            "d", "a", "ñ", "o">>
      [] t = "t_json"  -> <<"[", "{", "}", "]">>
      [] t = "t_number" -> <<"4", "2">>

\* what BaseAgent._generate can return: "" on failure, else any model text
LLMTexts == {"t_empty", "t_safe", "t_risk"}

UpperCase == <<"A", "B", "C", "D", "E", "F", "G", "H", "I", "J", "K", "L", "M",
               "N", "Ñ", "O", "P", "Q", "R", "S", "T", "U", "V", "W", "X", "Y",
               "Z", "Ó">>
LowerCase == <<"a", "b", "c", "d", "e", "f", "g", "h", "i", "j", "k", "l", "m",
               "n", "ñ", "o", "p", "q", "r", "s", "t", "u", "v", "w", "x", "y",
               "z", "ó">>

\* re.IGNORECASE: compare letters by their lower-case form
Lower(c) ==
    IF \E i \in 1..Len(UpperCase) : UpperCase[i] = c
    THEN LowerCase[CHOOSE i \in 1..Len(UpperCase) : UpperCase[i] = c]
    ELSE c

LowerSeq(cs) == [i \in 1..Len(cs) |-> Lower(cs[i])]

RISK_KEYWORDS == <<
    <<"s", "u", "i", "c", "i", "d">>,
    <<"m", "a", "t", "a", "r", "m", "e">>,
    <<"q", "u", "i", "t", "a", "r", "m", "e", " ", "l", "a", " ", "v", "i", "d", "a">>,
    <<"a", "u", "t", "o", "l", "e", "s", "i", "o", "n">>,
    <<"h", "a", "c", "e", "r", "m", "e", " ", "d", "a", "ñ", "o">>,
    <<"n", "o", " ", "q", "u", "i", "e", "r", "o", " ", "v", "i", "v", "i", "r">>,
    <<"c", "o", "r", "t", "a", "r", "m", "e">>,
    <<"s", "e", "l", "f", ".", "h", "a", "r", "m">>,
    <<"k", "i", "l", "l", " ", "m", "y", "s", "e", "l", "f">> >>

\* re.search without re.IGNORECASE: the text is compared as it is written
SearchCaseSensitive(pattern, cs) ==
    \E i \in 1..(Len(cs) - Len(pattern) + 1) :
        SubSeq(cs, i, i + Len(pattern) - 1) = pattern

\* re.search(pattern, text, re.IGNORECASE) for a literal pattern
Search(pattern, cs) ==
    \E i \in 1..(Len(cs) - Len(pattern) + 1) :
        LowerSeq(SubSeq(cs, i, i + Len(pattern) - 1)) = LowerSeq(pattern)

NoRisk == "None"
RiskLabel == "Riesgo de Autolesion o Suicidio"

\* RiskGate.check on the characters of a text: <<is_risky, risk_type>>
RiskGateScan(cs) ==
    IF \E k \in 1..Len(RISK_KEYWORDS) : Search(RISK_KEYWORDS[k], cs)
    THEN <<TRUE, RiskLabel>>
    ELSE <<FALSE, NoRisk>>

\* RiskGate.check on one of the session's texts
RiskGateCheck(t) == RiskGateScan(TextChars(t))

----------------------------------------------------------------------------
(* The domain catalogue *)

DOMAINS == <<"mood", "anxiety", "sleep", "eating", "substances", "psychosis",
             "trauma", "ocd", "cognition", "social_functioning",
             "suicidal_ideation">>

\* the catalogue the model works with: the first NumDomains entries
Catalogue == SubSeq(DOMAINS, 1, NumDomains)

NoDomain == ""

----------------------------------------------------------------------------
(* The session state and the node functions of nodes.py.  Every node       *)
(* operator returns the state after the node's partial update is merged.   *)

NoReport == [verified |-> FALSE, total_claims |-> -1]

\* the initial_state dict built by create_session / main.run / the UI
InitialState(max_turns, interactive) ==
    [ transcript        |-> << >>,
      domains_covered   |-> << >>,
      domains_pending   |-> << >>,
      coverage_complete |-> FALSE,
      retrieved_chunks  |-> << >>,
      hypotheses        |-> << >>,
      audit_report      |-> NoReport,
      risk_detected     |-> FALSE,
      risk_type         |-> NoRisk,
      current_step      |-> "created",
      turn_count        |-> 0,
      max_turns         |-> max_turns,
      finalized         |-> FALSE,
      interactive_mode  |-> interactive ]

Entry(role, content, domain, turn_id) ==
    [role |-> role, content |-> content, domain |-> domain, turn_id |-> turn_id]

\* init_session: shuffle only when domains_pending is empty, reset the flags
init_session(s, shuffled) ==
    [s EXCEPT !.domains_pending   = IF s.domains_pending = << >>
                                    THEN shuffled ELSE s.domains_pending,
              !.coverage_complete = FALSE,
              !.risk_detected     = FALSE,
              !.finalized         = FALSE,
              !.current_step      = "init_session"]

\* TherapistAgent.act: question on the head of domains_pending
TherapistAct(s, text) ==
    LET pending == IF s.domains_pending # << >> THEN s.domains_pending
                   ELSE Without(Catalogue, s.domains_covered)
    IN  IF pending = << >>
        THEN [s EXCEPT !.coverage_complete = TRUE]
        ELSE [s EXCEPT !.transcript = Append(s.transcript,
                           Entry("therapist", text, pending[1], Len(s.transcript))),
                       !.domains_pending = pending]

\* _mock_therapist_question: no text of the therapist banks holds a risk term
MockTherapistTexts(domain) == {"t_safe"}

\* _mock_client_response: one Spanish reply of the suicidal_ideation bank
\* holds the risk term "hacerme daño"
MockClientTexts(domain) ==
    IF domain = "suicidal_ideation" THEN {"t_safe", "t_dano"} ELSE {"t_safe"}

\* the texts therapist_ask can produce in the state s
TherapistTexts(s, withAgents) ==
    IF withAgents THEN LLMTexts
    ELSE MockTherapistTexts(IF s.domains_pending # << >>
                            THEN s.domains_pending[1] ELSE "mood")

\* therapist_ask whose mock fallback tags a question asked with nothing
\* pending "general", a label outside the catalogue
therapist_askDefaultGeneral(s, text, withAgents) ==
    IF withAgents
    THEN [TherapistAct(s, text) EXCEPT !.current_step = "therapist_ask",
                                       !.turn_count = s.turn_count + 1]
    ELSE LET domain == IF s.domains_pending # << >>
                       THEN s.domains_pending[1] ELSE "general"
         IN  [s EXCEPT !.transcript = Append(s.transcript,
                           Entry("therapist", text, domain, Len(s.transcript))),
                       !.turn_count = s.turn_count + 1,
                       !.current_step = "therapist_ask"]

\* therapist_ask: agent when registered, else the mock fallback
therapist_ask(s, text, withAgents) ==
    IF withAgents
    THEN [TherapistAct(s, text) EXCEPT !.current_step = "therapist_ask",
                                       !.turn_count = s.turn_count + 1]
    ELSE LET domain == IF s.domains_pending # << >>
                       THEN s.domains_pending[1] ELSE "mood"
         IN  [s EXCEPT !.transcript = Append(s.transcript,
                           Entry("therapist", text, domain, Len(s.transcript))),
                       !.turn_count = s.turn_count + 1,
                       !.current_step = "therapist_ask"]

\* _current_domain: domain of the last therapist turn, else head of pending
RECURSIVE LastTherapistDomain(_)
LastTherapistDomain(tr) ==
    IF tr = << >> THEN NoDomain
    ELSE LET e == tr[Len(tr)]
         IN  IF e.role = "therapist" /\ e.domain # NoDomain THEN e.domain
             ELSE LastTherapistDomain(SubSeq(tr, 1, Len(tr) - 1))

CurrentDomain(s) ==
    IF LastTherapistDomain(s.transcript) # NoDomain
    THEN LastTherapistDomain(s.transcript)
    ELSE IF s.domains_pending # << >> THEN s.domains_pending[1] ELSE "mood"

\* the texts client_respond can produce in the state s
ClientTexts(s, withAgents) ==
    IF withAgents THEN LLMTexts ELSE MockClientTexts(CurrentDomain(s))

\* client_respond (ClientAgent.act and the mock fallback append alike)
client_respond(s, text) ==
    [s EXCEPT !.transcript = Append(s.transcript,
                  Entry("client", text, NoDomain, Len(s.transcript))),
              !.current_step = "client_respond"]

\* the loop of coverage_check without the test "domain not in covered"
RECURSIVE CoveredWithRepeats(_, _)
CoveredWithRepeats(covered, tr) ==
    IF tr = << >> THEN covered
    ELSE LET d == Head(tr).domain
         IN  IF d # NoDomain
             THEN CoveredWithRepeats(Append(covered, d), Tail(tr))
             ELSE CoveredWithRepeats(covered, Tail(tr))

\* the loop of coverage_check that derives the covered domains
RECURSIVE Covered(_, _)
Covered(covered, tr) ==
    IF tr = << >> THEN covered
    ELSE LET d == Head(tr).domain
         IN  IF d # NoDomain /\ ~InSeq(d, covered)
             THEN Covered(Append(covered, d), Tail(tr))
             ELSE Covered(covered, Tail(tr))

\* coverage_check with the turn ceiling compared by > instead of >=
CoverageCompleteStrict(pending, turn_count, max_turns) ==
    pending = << >> \/ turn_count > max_turns

\* coverage_complete = (not pending) or (turn_count >= max_turns)
CoverageComplete(pending, turn_count, max_turns) ==
    pending = << >> \/ turn_count >= max_turns

coverage_check(s) ==
    LET covered == Covered(s.domains_covered, s.transcript)
        pending == Without(s.domains_pending, covered)
    IN  [s EXCEPT !.domains_covered   = covered,
                  !.domains_pending   = pending,
                  !.coverage_complete =
                      CoverageComplete(pending, s.turn_count, s.max_turns)]

\* risk_check scanning every transcript entry instead of the last one
risk_checkWholeTranscript(s) ==
    IF \E i \in 1..Len(s.transcript) : RiskGateCheck(s.transcript[i].content)[1]
    THEN [s EXCEPT !.risk_detected = TRUE, !.risk_type = RiskLabel]
    ELSE [s EXCEPT !.risk_detected = FALSE, !.risk_type = NoRisk]

\* risk_check: RiskGate over the last transcript entry only
risk_check(s) ==
    IF s.transcript = << >>
    THEN [s EXCEPT !.risk_detected = FALSE, !.risk_type = NoRisk]
    ELSE LET r == RiskGateCheck(s.transcript[Len(s.transcript)].content)
         IN  [s EXCEPT !.risk_detected = r[1], !.risk_type = r[2]]

\* results retrieve_context can return: the fallback pair tagged "mock", or
\* what the retriever found
ChunkLists == { <<"mock_6A70", "mock_6B00">>, <<"chunk_a", "chunk_b">> }

retrieve_context(s, chunks) == [s EXCEPT !.retrieved_chunks = chunks]

\* the mock hypothesis of diagnostician_draft, built from domains_covered
MockHypotheses(s) ==
    LET evidence == Without(s.domains_covered,
                            Without(s.domains_covered, <<"anxiety", "sleep", "mood">>))
    IN  << [label |-> "GAD (simulated)", code |-> "6B00",
            confidence |-> IF Len(evidence) < 2 THEN "MEDIUM" ELSE "HIGH",
            evidence_for |-> IF evidence # << >> THEN evidence
                             ELSE <<"symptoms reported in the interview">>,
            json |-> "object"] >>

\* what the backend can answer the diagnostician's prompt with: "" when
\* generation failed, free text, a JSON array of one hypothesis object
\* (t_json) or a JSON number (t_number)
DiagnosticianResponses == LLMTexts \cup {"t_json", "t_number"}

Digits == {"0", "1", "2", "3", "4", "5", "6", "7", "8", "9"}

\* json.loads after fence stripping and comma repair: the kind of value
JsonLoads(raw) ==
    LET cs == TextChars(raw)
    IN  IF cs = << >> THEN "error"
        ELSE IF cs[1] = "[" /\ cs[Len(cs)] = "]" THEN "array"
        ELSE IF \A i \in 1..Len(cs) : cs[i] \in Digits THEN "number"
        ELSE "error"

ParseErrorLabel == "JSON parse error"

\* DiagnosticianAgent.act: the parsed list, the parsed value wrapped in a
\* list, or the parse-error record that carries the raw text
DiagnosticianAct(raw) ==
    CASE JsonLoads(raw) = "array" ->
            << [label |-> "6A70", code |-> "6A70", confidence |-> "HIGH",
                evidence_for |-> <<"tristeza">>, json |-> "object"] >>
      [] JsonLoads(raw) = "number" ->
            << [label |-> "", code |-> "", confidence |-> "",
                evidence_for |-> << >>, json |-> "number"] >>
      [] OTHER ->
            << [label |-> ParseErrorLabel, code |-> "N/A", confidence |-> "LOW",
                evidence_for |-> <<raw>>, json |-> "object"] >>

AgentHypotheses == {DiagnosticianAct(r) : r \in DiagnosticianResponses}

HypothesesOf(s, withAgents) ==
    IF withAgents THEN AgentHypotheses ELSE {MockHypotheses(s)}

diagnostician_draft(s, hyps) ==
    [s EXCEPT !.hypotheses = hyps, !.current_step = "diagnostician_draft"]

\* evidence_audit: the auditor's report, or the fixed report without auditor
AuditReports(withAgents) ==
    IF withAgents
    THEN { [verified |-> TRUE, total_claims |-> 1],
           [verified |-> FALSE, total_claims |-> 1] }
    ELSE { [verified |-> TRUE, total_claims |-> 0] }

\* EvidenceAuditorAgent.act calls hypothesis.get on every hypothesis: a
\* hypothesis that is no JSON object has no such method and the call raises
AuditRaises(s, withAgents) ==
    withAgents /\ \E i \in 1..Len(s.hypotheses) : s.hypotheses[i].json # "object"

evidence_audit(s, report) ==
    [s EXCEPT !.audit_report = report, !.current_step = "evidence_audit"]

finalize_session(s) == [s EXCEPT !.finalized = TRUE, !.current_step = "finalized"]

safe_exit(s) ==
    [s EXCEPT !.finalized = TRUE, !.current_step = "safe_exit",
              !.risk_detected = TRUE]

----------------------------------------------------------------------------
(* The REST endpoints of sessions.py, one call per step.  The handler      *)
(* works on the dict stored in app_state.sessions itself, so every         *)
(* state.update it made before an early return or a raise is kept.         *)

NoInput == "None"
HumanInputs == {NoInput} \cup LLMTexts

\* not body.human_input: None and the empty string are both falsy
Falsy(human) == human = NoInput \/ TextChars(human) = << >>

\* the human turn numbered by the transcript length after the append
HumanTurnNumberedAfterAppend(s, human) ==
    [s EXCEPT !.transcript = Append(s.transcript,
                  Entry("client", human, NoDomain, Len(s.transcript) + 1)),
              !.turn_count = s.turn_count + 1]

\* lines 157-164 of execute_turn: the human reply and the turn_count bump
HumanTurn(s, human) ==
    [s EXCEPT !.transcript = Append(s.transcript,
                  Entry("client", human, NoDomain, Len(s.transcript))),
              !.turn_count = s.turn_count + 1]

\* execute_turn: the stored state and the response the call ends with
ExecuteTurnResult(s, ttext, ctext, human, withAgents) ==
    IF s.finalized THEN [state |-> s, response |-> "409_finalized", asked |-> 0]
    ELSE IF s.risk_detected THEN [state |-> s, response |-> "409_risk", asked |-> 0]
    ELSE
      LET s1 == risk_check(therapist_ask(s, ttext, withAgents))
      IN  IF s1.risk_detected
          THEN [state |-> s1, response |-> "risk", asked |-> 1]
          ELSE IF s1.interactive_mode /\ Falsy(human)
          THEN [state |-> s1, response |-> "422", asked |-> 1]
          ELSE
            LET s2 == IF s1.interactive_mode THEN HumanTurn(s1, human)
                      ELSE client_respond(s1, ctext)
                s3 == risk_check(s2)
            IN  IF s3.risk_detected
                THEN [state |-> s3, response |-> "risk", asked |-> 1]
                ELSE [state |-> coverage_check(s3), response |-> "ok", asked |-> 1]

\* finalize_session_endpoint: retrieval, diagnosis, audit, finalized = True
\* an exception of evidence_audit leaves the handler (500) after the stored
\* dict took the results of the two nodes before it
FinalizeResult(s, chunks, hyps, report, withAgents) ==
    IF s.finalized
    THEN [state |-> s, response |-> "409_finalized", ran |-> 0, done |-> 0]
    ELSE
      LET s0 == diagnostician_draft(retrieve_context(s, chunks), hyps)
          s1 == evidence_audit(s0, report)
      IN  IF AuditRaises(s0, withAgents)
          THEN [state |-> s0, response |-> "500", ran |-> 1, done |-> 0]
          ELSE [state |-> [s1 EXCEPT !.finalized = TRUE,
                                     !.current_step = "finalized"],
                response |-> "finalized", ran |-> 1, done |-> 1]

\* the guard that keeps the model finite: no more questions past the bounds
WithinBounds(s) ==
    Len(s.transcript) < MaxTranscript /\ s.turn_count < MaxTurnCount

\* inputs the handler never reads are not enumerated: human_input in auto
\* mode, the synthetic reply in interactive mode, all of them on a 409
ExecuteTurn ==
    /\ driver = "rest"
    /\ session.finalized \/ session.risk_detected \/ WithinBounds(session)
    /\ LET rejected == session.finalized \/ session.risk_detected
       IN
       \E human \in (IF ~rejected /\ session.interactive_mode
                     THEN HumanInputs ELSE {NoInput}) :
       \E ttext \in (IF rejected THEN {"t_safe"}
                     ELSE TherapistTexts(session, agents)) :
       \E ctext \in (IF rejected \/ session.interactive_mode THEN {"t_safe"}
                     ELSE ClientTexts(therapist_ask(session, ttext, agents), agents)) :
          LET r == ExecuteTurnResult(session, ttext, ctext, human, agents)
          IN  /\ session' = r.state
              /\ response' = r.response
              /\ hist' = [hist EXCEPT !.therapist_ask = @ + r.asked]
    /\ UNCHANGED <<driver, agents, node, resumes, requests, pc, input>>

FinalizeEndpoint ==
    /\ driver = "rest"
    /\ session.finalized \/ hist.retrieve_context < MaxPipelineRuns
    /\ \E chunks \in (IF session.finalized THEN {<< >>} ELSE ChunkLists) :
       \E report \in (IF session.finalized THEN {NoReport} ELSE AuditReports(agents)) :
       \E hyps \in (IF session.finalized THEN {<< >>}
                    ELSE HypothesesOf(session, agents)) :
          LET r == FinalizeResult(session, chunks, hyps, report, agents)
          IN  /\ session' = r.state
              /\ response' = r.response
              /\ hist' = [hist EXCEPT !.retrieve_context = @ + r.ran,
                                      !.diagnostician_draft = @ + r.ran,
                                      !.evidence_audit = @ + r.ran,
                                      !.finalize = @ + r.done]
    /\ UNCHANGED <<driver, agents, node, resumes, requests, pc, input>>

----------------------------------------------------------------------------
(* The graph of graph.py, one node per step; node is the node to run next. *)

\* _determine_client_mode that ignores interactive_mode
DetermineClientModeAlwaysAuto(s) == "auto"

\* _determine_client_mode
DetermineClientMode(s) == IF s.interactive_mode THEN "interactive" ELSE "auto"

\* _route_risk
RouteRisk(s) ==
    IF s.risk_detected THEN "risky"
    ELSE IF s.current_step = "therapist_ask" THEN DetermineClientMode(s)
    ELSE IF s.current_step = "client_respond" THEN "safe_client"
    ELSE IF s.current_step = "human_input" THEN "safe_human"
    ELSE IF s.current_step = "diagnostician_draft" THEN "safe_diagnostician"
    ELSE "safe_client"

\* the conditional edges out of risk_check
RiskEdge(route) ==
    CASE route = "auto"               -> "client_respond"
      [] route = "interactive"        -> "human_input"
      [] route = "safe_diagnostician" -> "evidence_audit"
      [] route = "safe_client"        -> "coverage_check"
      [] route = "safe_human"         -> "coverage_check"
      [] route = "risky"              -> "safe_exit"

\* _route_coverage
RouteCoverage(s) ==
    IF s.coverage_complete THEN "complete"
    ELSE IF s.turn_count >= s.max_turns THEN "max_turns"
    ELSE "continue"

\* the conditional edges out of coverage_check
CoverageEdge(route) ==
    IF route = "continue" THEN "therapist_ask" ELSE "retrieve_context"

GraphStep(next) ==
    /\ node' = next
    /\ UNCHANGED <<driver, agents, response, resumes, requests, pc, input>>

GraphInitSession ==
    /\ driver = "graph" /\ node = "init_session"
    /\ \E shuffled \in Shuffles(Catalogue) :
          session' = init_session(session, shuffled)
    /\ UNCHANGED hist
    /\ GraphStep("therapist_ask")

GraphTherapistAsk ==
    /\ driver = "graph" /\ node = "therapist_ask"
    /\ WithinBounds(session)
    /\ \E ttext \in TherapistTexts(session, agents) :
          session' = therapist_ask(session, ttext, agents)
    /\ hist' = [hist EXCEPT !.therapist_ask = @ + 1]
    /\ GraphStep("risk_check")

GraphRiskCheck ==
    /\ driver = "graph" /\ node = "risk_check"
    /\ session' = risk_check(session)
    /\ UNCHANGED hist
    /\ GraphStep(RiskEdge(RouteRisk(risk_check(session))))

GraphClientRespond ==
    /\ driver = "graph" /\ node = "client_respond"
    /\ \E ctext \in ClientTexts(session, agents) :
          session' = client_respond(session, ctext)
    /\ UNCHANGED hist
    /\ GraphStep("risk_check")

\* the interrupt before human_input: the UI appends the reply with
\* update_state(as_node="human_input") and resumes the graph
GraphHumanInput ==
    /\ driver = "graph" /\ node = "human_input"
    /\ \E human \in HumanInputs :
          /\ ~Falsy(human)
          /\ session' = [session EXCEPT
                 !.transcript = Append(session.transcript,
                     Entry("client", human, NoDomain, Len(session.transcript))),
                 !.current_step = "human_input"]
    /\ UNCHANGED hist
    /\ GraphStep("risk_check")

GraphCoverageCheck ==
    /\ driver = "graph" /\ node = "coverage_check"
    /\ session' = coverage_check(session)
    /\ UNCHANGED hist
    /\ GraphStep(CoverageEdge(RouteCoverage(coverage_check(session))))

GraphRetrieveContext ==
    /\ driver = "graph" /\ node = "retrieve_context"
    /\ \E chunks \in ChunkLists : session' = retrieve_context(session, chunks)
    /\ hist' = [hist EXCEPT !.retrieve_context = @ + 1]
    /\ GraphStep("diagnostician_draft")

GraphDiagnosticianDraft ==
    /\ driver = "graph" /\ node = "diagnostician_draft"
    /\ \E hyps \in HypothesesOf(session, agents) :
          session' = diagnostician_draft(session, hyps)
    /\ hist' = [hist EXCEPT !.diagnostician_draft = @ + 1]
    /\ GraphStep("risk_check")

GraphEvidenceAudit ==
    /\ driver = "graph" /\ node = "evidence_audit"
    /\ hist' = [hist EXCEPT !.evidence_audit = @ + 1]
    /\ IF AuditRaises(session, agents)
       THEN session' = session /\ GraphStep("raised")
       ELSE /\ \E report \in AuditReports(agents) :
                  session' = evidence_audit(session, report)
            /\ GraphStep("finalize_session")

GraphFinalizeSession ==
    /\ driver = "graph" /\ node = "finalize_session"
    /\ session' = finalize_session(session)
    /\ hist' = [hist EXCEPT !.finalize = @ + 1]
    /\ GraphStep("END")

GraphSafeExit ==
    /\ driver = "graph" /\ node = "safe_exit"
    /\ session' = safe_exit(session)
    /\ UNCHANGED hist
    /\ GraphStep("END")

\* graph.invoke / graph.stream called again with the session's own state as
\* input: the run starts over at the entry point, init_session
GraphResume ==
    /\ driver = "graph" /\ node \in {"END", "human_input"}
    /\ resumes < MaxResume
    /\ resumes' = resumes + 1
    /\ node' = "init_session"
    /\ UNCHANGED <<session, driver, agents, response, hist, requests, pc, input>>

----------------------------------------------------------------------------
(* The sequential specification: one operation at a time on the session.   *)

Threads == {1, 2}

NoHist == [therapist_ask |-> 0, retrieve_context |-> 0, diagnostician_draft |-> 0,
           evidence_audit |-> 0, finalize |-> 0]

\* create_session: the initial_state dict updated with init_session's result
CreateSession(max_turns, interactive, shuffled) ==
    init_session(InitialState(max_turns, interactive), shuffled)

Init ==
    /\ driver \in {"rest", "graph"}
    /\ agents \in BOOLEAN
    /\ \E max_turns \in 0..MaxMaxTurns, interactive \in BOOLEAN :
          IF driver = "rest"
          THEN /\ \E shuffled \in Shuffles(Catalogue) :
                     session = CreateSession(max_turns, interactive, shuffled)
               /\ node = "none"
          ELSE /\ session = InitialState(max_turns, interactive)
               /\ node = "init_session"
    /\ response = "201"
    /\ hist = NoHist
    /\ resumes = 0
    /\ requests = 0
    /\ pc = [t \in Threads |-> "idle"]
    /\ input = [t \in Threads |-> NoInput]

Next ==
    \/ ExecuteTurn
    \/ FinalizeEndpoint
    \/ GraphInitSession
    \/ GraphTherapistAsk
    \/ GraphRiskCheck
    \/ GraphClientRespond
    \/ GraphHumanInput
    \/ GraphCoverageCheck
    \/ GraphRetrieveContext
    \/ GraphDiagnosticianDraft
    \/ GraphEvidenceAudit
    \/ GraphFinalizeSession
    \/ GraphSafeExit
    \/ GraphResume

Spec == Init /\ [][Next]_vars

\* The graph on its own, with the executor's scheduling: graph.invoke and
\* graph.stream run the node that is next until the run ends (END, the
\* interrupt before human_input, or an exception), so a node that can run
\* eventually does.  Supplying the human reply and invoking the graph again
\* are the caller's steps and have no such guarantee.
InitGraph == Init /\ driver = "graph"

GraphRun ==
    \/ GraphInitSession
    \/ GraphTherapistAsk
    \/ GraphRiskCheck
    \/ GraphClientRespond
    \/ GraphCoverageCheck
    \/ GraphRetrieveContext
    \/ GraphDiagnosticianDraft
    \/ GraphEvidenceAudit
    \/ GraphFinalizeSession
    \/ GraphSafeExit

NextGraph ==
    \/ GraphRun
    \/ GraphHumanInput
    \/ GraphResume

SpecGraph == InitGraph /\ [][NextGraph]_vars /\ WF_vars(GraphRun)

----------------------------------------------------------------------------
(* Concurrent REST requests.  FastAPI runs the synchronous handlers of     *)
(* sessions.py in a thread pool and app_state.sessions has no lock, so two *)
(* requests on one session id advance node by node on the same dict.       *)

Goto(t, where) == pc' = [pc EXCEPT ![t] = where]

Reply(t, code) == /\ Goto(t, "idle")
                  /\ response' = code

ConcFrame == UNCHANGED <<driver, agents, node, resumes>>

\* execute_turn, lines 114-126: look the session up, 409 if finalized or halted
ConcBeginTurn(t) ==
    /\ pc[t] = "idle"
    /\ requests < MaxRequests
    /\ requests' = requests + 1
    /\ \E human \in HumanInputs : input' = [input EXCEPT ![t] = human]
    /\ IF session.finalized THEN Reply(t, "409_finalized")
       ELSE IF session.risk_detected THEN Reply(t, "409_risk")
       ELSE Goto(t, "therapist_ask") /\ UNCHANGED response
    /\ UNCHANGED <<session, hist>>
    /\ ConcFrame

\* line 136: state.update(therapist_ask(state))
ConcTherapistAsk(t) ==
    /\ pc[t] = "therapist_ask"
    /\ \E ttext \in TherapistTexts(session, agents) :
          session' = therapist_ask(session, ttext, agents)
    /\ hist' = [hist EXCEPT !.therapist_ask = @ + 1]
    /\ Goto(t, "risk_check_1")
    /\ UNCHANGED <<response, input>>
    /\ ConcFrame /\ UNCHANGED requests

\* lines 139-156: risk check after the therapist, then the mode switch
ConcRiskCheck1(t) ==
    /\ pc[t] = "risk_check_1"
    /\ session' = risk_check(session)
    /\ IF session'.risk_detected THEN Reply(t, "risk")
       ELSE IF session'.interactive_mode /\ Falsy(input[t]) THEN Reply(t, "422")
       ELSE Goto(t, "client") /\ UNCHANGED response
    /\ UNCHANGED <<hist, input>>
    /\ ConcFrame /\ UNCHANGED requests

\* lines 157-166: the human reply or client_respond
ConcClient(t) ==
    /\ pc[t] = "client"
    /\ IF session.interactive_mode
       THEN session' = HumanTurn(session, input[t])
       ELSE \E ctext \in ClientTexts(session, agents) :
               session' = client_respond(session, ctext)
    /\ Goto(t, "risk_check_2")
    /\ UNCHANGED <<response, hist, input>>
    /\ ConcFrame /\ UNCHANGED requests

\* lines 169-178: risk check after the client
ConcRiskCheck2(t) ==
    /\ pc[t] = "risk_check_2"
    /\ session' = risk_check(session)
    /\ IF session'.risk_detected THEN Reply(t, "risk")
       ELSE Goto(t, "coverage_check") /\ UNCHANGED response
    /\ UNCHANGED <<hist, input>>
    /\ ConcFrame /\ UNCHANGED requests

\* lines 181-193: coverage_check and the response
ConcCoverageCheck(t) ==
    /\ pc[t] = "coverage_check"
    /\ session' = coverage_check(session)
    /\ Reply(t, "ok")
    /\ UNCHANGED <<hist, input>>
    /\ ConcFrame /\ UNCHANGED requests

\* finalize_session_endpoint, lines 203-209
ConcBeginFinalize(t) ==
    /\ pc[t] = "idle"
    /\ requests < MaxRequests
    /\ requests' = requests + 1
    /\ IF session.finalized THEN Reply(t, "409_finalized")
       ELSE Goto(t, "retrieve_context") /\ UNCHANGED response
    /\ UNCHANGED <<session, hist, input>>
    /\ ConcFrame

\* line 217
ConcRetrieveContext(t) ==
    /\ pc[t] = "retrieve_context"
    /\ \E chunks \in ChunkLists : session' = retrieve_context(session, chunks)
    /\ hist' = [hist EXCEPT !.retrieve_context = @ + 1]
    /\ Goto(t, "diagnostician_draft")
    /\ UNCHANGED <<response, input>>
    /\ ConcFrame /\ UNCHANGED requests

\* line 218
ConcDiagnosticianDraft(t) ==
    /\ pc[t] = "diagnostician_draft"
    /\ \E hyps \in HypothesesOf(session, agents) :
          session' = diagnostician_draft(session, hyps)
    /\ hist' = [hist EXCEPT !.diagnostician_draft = @ + 1]
    /\ Goto(t, "evidence_audit")
    /\ UNCHANGED <<response, input>>
    /\ ConcFrame /\ UNCHANGED requests

\* line 219
ConcEvidenceAudit(t) ==
    /\ pc[t] = "evidence_audit"
    /\ hist' = [hist EXCEPT !.evidence_audit = @ + 1]
    /\ IF AuditRaises(session, agents)
       THEN session' = session /\ Reply(t, "500")
       ELSE /\ \E report \in AuditReports(agents) :
                  session' = evidence_audit(session, report)
            /\ Goto(t, "set_finalized")
            /\ UNCHANGED response
    /\ UNCHANGED input
    /\ ConcFrame /\ UNCHANGED requests

\* lines 220-230
ConcSetFinalized(t) ==
    /\ pc[t] = "set_finalized"
    /\ session' = [session EXCEPT !.finalized = TRUE, !.current_step = "finalized"]
    /\ hist' = [hist EXCEPT !.finalize = @ + 1]
    /\ Reply(t, "finalized")
    /\ UNCHANGED input
    /\ ConcFrame /\ UNCHANGED requests

InitConc ==
    /\ driver = "rest"
    /\ agents \in BOOLEAN
    /\ \E max_turns \in 0..MaxMaxTurns, interactive \in BOOLEAN :
       \E shuffled \in Shuffles(Catalogue) :
          session = CreateSession(max_turns, interactive, shuffled)
    /\ node = "none"
    /\ response = "201"
    /\ hist = NoHist
    /\ resumes = 0
    /\ requests = 0
    /\ pc = [t \in Threads |-> "idle"]
    /\ input = [t \in Threads |-> NoInput]

NextConc ==
    \E t \in Threads :
        \/ ConcBeginTurn(t)
        \/ ConcTherapistAsk(t)
        \/ ConcRiskCheck1(t)
        \/ ConcClient(t)
        \/ ConcRiskCheck2(t)
        \/ ConcCoverageCheck(t)
        \/ ConcBeginFinalize(t)
        \/ ConcRetrieveContext(t)
        \/ ConcDiagnosticianDraft(t)
        \/ ConcEvidenceAudit(t)
        \/ ConcSetFinalized(t)

SpecConc == InitConc /\ [][NextConc]_vars

----------------------------------------------------------------------------
(* Specifications of single functions: Init draws the arguments from       *)
(* bounded sets, the one action applies the function.  driver names the    *)
(* function, node is "call" before and "returned" after the call.          *)

UnitInit(function) ==
    /\ driver = function
    /\ agents = FALSE
    /\ node = "call"
    /\ response = "none"
    /\ hist = NoHist
    /\ resumes = 0
    /\ requests = 0
    /\ pc = [t \in Threads |-> "idle"]

\* transcripts of client turns with any of the texts, risky or not
CheckedTranscripts ==
    UNION { { [i \in 1..n |-> Entry("client", f[i], NoDomain, i - 1)] :
                f \in [1..n -> Texts] } : n \in 0..MaxChecked }

\* risk_check(state) on any transcript, whatever the flags were before
InitRiskCheck ==
    /\ UnitInit("risk_check")
    /\ input = [t \in Threads |-> NoInput]
    /\ \E tr \in CheckedTranscripts, rd \in BOOLEAN :
          session = [InitialState(1, FALSE) EXCEPT
                        !.transcript = tr,
                        !.risk_detected = rd,
                        !.risk_type = IF rd THEN RiskLabel ELSE NoRisk]

RiskCheckCall ==
    /\ driver = "risk_check" /\ node = "call"
    /\ session' = risk_check(session)
    /\ node' = "returned"
    /\ UNCHANGED <<driver, agents, response, hist, resumes, requests, pc, input>>

NextRiskCheck == RiskCheckCall

SpecRiskCheck == InitRiskCheck /\ [][NextRiskCheck]_vars

\* RiskGate.check(text): the text is a phrase in some letter case between
\* two paddings; term is the index of the risk term the phrase is, 0 if none
Upper(c) ==
    IF \E i \in 1..Len(LowerCase) : LowerCase[i] = c
    THEN UpperCase[CHOOSE i \in 1..Len(LowerCase) : LowerCase[i] = c]
    ELSE c

Casings == {"lower", "upper", "title", "mixed"}

ApplyCase(casing, cs) ==
    [i \in 1..Len(cs) |->
        CASE casing = "upper" -> Upper(cs[i])
          [] casing = "title" -> IF i = 1 THEN Upper(cs[i]) ELSE cs[i]
          [] casing = "mixed" -> IF i % 2 = 0 THEN Upper(cs[i]) ELSE cs[i]
          [] OTHER -> cs[i]]

\* phrases that hold no risk term, most of them one character off a term
SafePhrases == <<
    << >>,
    <<"h", "o", "l", "a">>,
    <<"s", "u", "i", "c", "i">>,
    <<"m", "a", "t", "a", "r">>,
    <<"a", "u", "t", "o", "l", "e", "s", "i", "ó", "n">>,
    <<"h", "a", "c", "e", "r", "m", "e", " ", "d", "a", "n", "o">>,
    <<"c", "o", "r", "t", "a", "r">>,
    <<"s", "e", "l", "f", "-", "h", "a", "r", "m">>,
    <<"k", "i", "l", "l", " ", " ", "m", "y", "s", "e", "l", "f">> >>

Pads == UNION { [1..n -> {"x", " "}] : n \in 0..MaxPad }

CheckedTexts ==
    { [text |-> pre \o ApplyCase(casing, RISK_KEYWORDS[k]) \o post, term |-> k] :
        pre \in Pads, post \in Pads, casing \in Casings,
        k \in 1..Len(RISK_KEYWORDS) }
    \cup
    { [text |-> pre \o ApplyCase(casing, SafePhrases[k]) \o post, term |-> 0] :
        pre \in Pads, post \in Pads, casing \in Casings,
        k \in 1..Len(SafePhrases) }

InitRiskGate ==
    /\ UnitInit("RiskGate.check")
    /\ session = InitialState(1, FALSE)
    /\ \E arg \in CheckedTexts : input = [t \in Threads |-> arg]

RiskGateCall ==
    /\ driver = "RiskGate.check" /\ node = "call"
    /\ response' = RiskGateScan(input[1].text)
    /\ node' = "returned"
    /\ UNCHANGED <<session, driver, agents, hist, resumes, requests, pc, input>>

NextRiskGate == RiskGateCall

SpecRiskGate == InitRiskGate /\ [][NextRiskGate]_vars

\* BaseAgent._generate(messages): the backend is absent (llm is None) or
\* answers each call by raising or by a text; requests counts the calls of
\* create_chat_completion, which is also the loop's attempt index
MAX_RETRIES == 1

\* the loop running one attempt more than range(_MAX_RETRIES + 1)
AttemptsOneMore == MAX_RETRIES + 2

\* for attempt in range(_MAX_RETRIES + 1)
Attempts == MAX_RETRIES + 1

Outcomes == {"raise"} \cup LLMTexts

Backends ==
    { [llm |-> "absent", outcomes |-> << >>] }
    \cup { [llm |-> "present", outcomes |-> o] : o \in [1..MaxBackendCalls -> Outcomes] }

InitGenerate ==
    /\ UnitInit("_generate")
    /\ session = InitialState(1, FALSE)
    /\ \E backend \in Backends : input = [t \in Threads |-> backend]

\* lines 70-73: no backend, no call
GenerateBegin ==
    /\ driver = "_generate" /\ node = "call"
    /\ IF input[1].llm = "absent"
       THEN response' = "t_empty" /\ node' = "returned"
       ELSE node' = "attempt" /\ UNCHANGED response
    /\ UNCHANGED <<session, driver, agents, hist, resumes, requests, pc, input>>

\* lines 75-98: one pass of the loop body, then the next pass or the return
GenerateAttempt ==
    /\ driver = "_generate" /\ node = "attempt"
    /\ requests < Len(input[1].outcomes)
    /\ requests' = requests + 1
    /\ LET outcome == input[1].outcomes[requests + 1]
       IN  IF outcome # "raise"
           THEN response' = outcome /\ node' = "returned"
           ELSE IF requests + 1 < Attempts
                THEN node' = "attempt" /\ UNCHANGED response
                ELSE response' = "t_empty" /\ node' = "returned"
    /\ UNCHANGED <<session, driver, agents, hist, resumes, pc, input>>

NextGenerate ==
    \/ GenerateBegin
    \/ GenerateAttempt

SpecGenerate == InitGenerate /\ [][NextGenerate]_vars

\* init_session(state) on its own: states with an empty domains_pending, and
\* states that already carry a list; input keeps the list that was passed in
ShuffledCatalogue == SubSeq(DOMAINS, 1, NumShuffled)

InitInitSession ==
    /\ UnitInit("init_session")
    /\ \E pending \in {<< >>, <<"sleep", "mood", "anxiety">>},
          max_turns \in 1..3,
          interactive \in BOOLEAN, rd \in BOOLEAN, fin \in BOOLEAN :
          /\ session = [InitialState(max_turns, interactive) EXCEPT
                            !.domains_pending = pending,
                            !.risk_detected = rd,
                            !.finalized = fin]
          /\ input = [t \in Threads |-> pending]

InitSessionCall ==
    /\ driver = "init_session" /\ node = "call"
    /\ \E shuffled \in Shuffles(ShuffledCatalogue) :
          session' = init_session(session, shuffled)
    /\ node' = "returned"
    /\ UNCHANGED <<driver, agents, response, hist, resumes, requests, pc, input>>

NextInitSession == InitSessionCall

SpecInitSession == InitInitSession /\ [][NextInitSession]_vars

\* DiagnosticianAgent.act on its own, on the text of the model output.  A
\* text is a sequence of symbols: the JSON punctuation, the double quote,
\* white space, digits, words, the markdown fence of three backticks (one
\* symbol) and the tag json that may follow it.
Quote == "\""
Fence == "<fence>"
Tag == "json"
WhiteSpace == {" ", "\n"}

First(S) == CHOOSE i \in S : \A j \in S : i <= j

\* str.strip()
Strip(cs) ==
    LET kept == {i \in 1..Len(cs) : cs[i] \notin WhiteSpace}
    IN  IF kept = {} THEN << >>
        ELSE SubSeq(cs, First(kept), CHOOSE i \in kept : \A j \in kept : j <= i)

\* text.split(Fence)[0]: the text before the first fence, all of it without one
BeforeFence(cs) ==
    LET fences == {i \in 1..Len(cs) : cs[i] = Fence}
    IN  IF fences = {} THEN cs ELSE SubSeq(cs, 1, First(fences) - 1)

\* _extract_json_block: the inside of the first json-tagged fence, else of
\* the first fence, else the whole text; stripped
extract_json_block(cs) ==
    LET tagged == {i \in 1..Len(cs) - 1 : cs[i] = Fence /\ cs[i + 1] = Tag}
        fences == {i \in 1..Len(cs) : cs[i] = Fence}
    IN  IF tagged # {}
        THEN Strip(BeforeFence(SubSeq(cs, First(tagged) + 2, Len(cs))))
        ELSE IF fences # {}
        THEN Strip(BeforeFence(SubSeq(cs, First(fences) + 1, Len(cs))))
        ELSE Strip(cs)

\* the first position at or after i that holds no white space
SkipSpace(cs, i) ==
    First({j \in i..Len(cs) + 1 : j = Len(cs) + 1 \/ cs[j] \notin WhiteSpace})

\* _sanitise_json: every comma that white space and then a closing brace or
\* bracket follows is dropped together with that white space
RECURSIVE sanitise_json(_)
sanitise_json(cs) ==
    IF cs = << >> THEN << >>
    ELSE LET j == SkipSpace(cs, 2)
         IN  IF cs[1] = "," /\ j <= Len(cs) /\ cs[j] \in {"}", "]"}
             THEN <<cs[j]>> \o sanitise_json(SubSeq(cs, j + 1, Len(cs)))
             ELSE <<cs[1]>> \o sanitise_json(Tail(cs))

\* json.loads: the decoder's result is the kind of the value, its text
\* without insignificant white space (dump), the elements of an array, or
\* the error message with the position (in symbols) it is raised at
Decoded(kind, dump, elems, next) ==
    [ok |-> TRUE, kind |-> kind, dump |-> dump, elems |-> elems, next |-> next,
     msg |-> ""]

JSONDecodeError(msg, pos) ==
    [ok |-> FALSE, kind |-> "error", dump |-> << >>, elems |-> << >>,
     next |-> pos, msg |-> msg]

\* json.decoder.scanstring from the opening quote at i
ParseString(cs, i) ==
    LET closing == {j \in i + 1..Len(cs) : cs[j] = Quote}
    IN  IF closing = {}
        THEN JSONDecodeError("Unterminated string starting at", i)
        ELSE LET q == First(closing)
                 control == {j \in i + 1..q - 1 : cs[j] = "\n"}
             IN  IF control # {}
                 THEN JSONDecodeError("Invalid control character at", First(control))
                 ELSE Decoded("string", SubSeq(cs, i, q), << >>, q + 1)

RECURSIVE ParseValue(_, _), ParseArray(_, _, _, _), ParseObject(_, _, _)

\* json.scanner.scan_once at i
ParseValue(cs, i) ==
    IF i > Len(cs) THEN JSONDecodeError("Expecting value", i)
    ELSE IF cs[i] = Quote THEN ParseString(cs, i)
    ELSE IF cs[i] = "["
    THEN LET j == SkipSpace(cs, i + 1)
         IN  IF j <= Len(cs) /\ cs[j] = "]"
             THEN Decoded("array", <<"[", "]">>, << >>, j + 1)
             ELSE ParseArray(cs, j, <<"[">>, << >>)
    ELSE IF cs[i] = "{"
    THEN LET j == SkipSpace(cs, i + 1)
         IN  IF j <= Len(cs) /\ cs[j] = "}"
             THEN Decoded("object", <<"{", "}">>, << >>, j + 1)
             ELSE IF j > Len(cs) \/ cs[j] # Quote
             THEN JSONDecodeError("Expecting property name enclosed in double quotes", j)
             ELSE ParseObject(cs, j, <<"{">>)
    ELSE IF cs[i] \in Digits \ {"0"}
    THEN LET j == First({k \in i + 1..Len(cs) + 1 :
                            k = Len(cs) + 1 \/ cs[k] \notin Digits})
         IN  Decoded("number", SubSeq(cs, i, j - 1), << >>, j)
    ELSE JSONDecodeError("Expecting value", i)

\* json.decoder.JSONArray: the element at i, then a comma or the bracket
ParseArray(cs, i, dump, elems) ==
    LET v == ParseValue(cs, i)
    IN  IF ~v.ok THEN v
        ELSE LET j == SkipSpace(cs, v.next)
                 d == dump \o v.dump
                 es == Append(elems, [kind |-> v.kind, dump |-> v.dump])
             IN  IF j <= Len(cs) /\ cs[j] = "]"
                 THEN Decoded("array", Append(d, "]"), es, j + 1)
                 ELSE IF j > Len(cs) \/ cs[j] # ","
                 THEN JSONDecodeError("Expecting ',' delimiter", j)
                 ELSE ParseArray(cs, SkipSpace(cs, j + 1), Append(d, ","), es)

\* json.decoder.JSONObject: the key at i, a colon, the value, then a comma
\* or the brace
ParseObject(cs, i, dump) ==
    LET key == ParseString(cs, i)
    IN  IF ~key.ok THEN key
        ELSE LET c == SkipSpace(cs, key.next)
             IN  IF c > Len(cs) \/ cs[c] # ":"
                 THEN JSONDecodeError("Expecting ':' delimiter", c)
                 ELSE LET v == ParseValue(cs, SkipSpace(cs, c + 1))
                      IN  IF ~v.ok THEN v
                          ELSE LET j == SkipSpace(cs, v.next)
                                   d == dump \o key.dump \o <<":">> \o v.dump
                               IN  IF j <= Len(cs) /\ cs[j] = "}"
                                   THEN Decoded("object", Append(d, "}"), << >>, j + 1)
                                   ELSE IF j > Len(cs) \/ cs[j] # ","
                                   THEN JSONDecodeError("Expecting ',' delimiter", j)
                                   ELSE LET n == SkipSpace(cs, j + 1)
                                        IN  IF n > Len(cs) \/ cs[n] # Quote
                                            THEN JSONDecodeError("Expecting property name enclosed in double quotes", n)
                                            ELSE ParseObject(cs, n, Append(d, ","))

\* json.loads: one value and nothing but white space around it
json_loads(cs) ==
    LET v == ParseValue(cs, SkipSpace(cs, 1))
    IN  IF ~v.ok THEN v
        ELSE IF SkipSpace(cs, v.next) <= Len(cs)
        THEN JSONDecodeError("Extra data", SkipSpace(cs, v.next))
        ELSE v

\* the except branch of act: the one record that carries the raw text
ParseErrorRecord(raw, exc) ==
    [kind |-> "object", label |-> ParseErrorLabel, code |-> "N/A",
     confidence |-> "LOW", evidence_for |-> <<raw>>,
     evidence_against |-> << [msg |-> exc.msg, pos |-> exc.next] >>]

\* act, lines 80-99: a parsed list as it is, any other parsed value wrapped
\* in a list, the parse-error record when the decoder raised
ParseHypotheses(raw) ==
    LET parsed == json_loads(sanitise_json(extract_json_block(raw)))
    IN  IF ~parsed.ok THEN <<ParseErrorRecord(raw, parsed)>>
        ELSE IF parsed.kind = "array" THEN parsed.elems
        ELSE << [kind |-> parsed.kind, dump |-> parsed.dump] >>

\* the outputs the calls are made on.  A string literal, and a hypothesis
\* object with a label and one evidence_for claim, written as json.dumps does
Str(content) == <<Quote>> \o content \o <<Quote>>

HypothesisObject(claim) ==
    <<"{">> \o Str(<<"label">>) \o <<":", " ">> \o Str(<<"GAD">>) \o <<",", " ">>
           \o Str(<<"evidence_for">>) \o <<":", " ", "[">> \o Str(claim)
           \o <<"]", "}">>

\* claim texts: any text is a legal JSON string
ClaimTexts ==
    { <<"worry">>, <<"a", ",", "]">>, <<"a", ",", " ", "}">>,
      <<"x", Fence, "y">>, <<"x", Fence, Tag>> }

RECURSIVE JoinObjects(_)
JoinObjects(claims) ==
    IF claims = << >> THEN << >>
    ELSE IF Len(claims) = 1 THEN HypothesisObject(claims[1])
    ELSE HypothesisObject(claims[1]) \o <<",", " ">> \o JoinObjects(Tail(claims))

\* the clean JSON arrays of up to MaxHypotheses hypothesis objects
CleanArrays ==
    UNION { { <<"[">> \o JoinObjects(claims) \o <<"]">> :
                claims \in [1..n -> ClaimTexts] } : n \in 0..MaxHypotheses }

SingleObjects == { HypothesisObject(claim) : claim \in ClaimTexts }

\* the closing braces and brackets of a text that stand outside its strings
Closings(cs) ==
    { i \in 1..Len(cs) :
        /\ cs[i] \in {"}", "]"}
        /\ Cardinality({j \in 1..i - 1 : cs[j] = Quote}) % 2 = 0 }

\* the text with a comma (and pad) put before each of the positions
RECURSIVE WithCommas(_, _, _, _)
WithCommas(cs, positions, pad, i) ==
    IF i > Len(cs) THEN << >>
    ELSE (IF i \in positions THEN <<",">> \o pad ELSE << >>)
            \o <<cs[i]>> \o WithCommas(cs, positions, pad, i + 1)

TrailingCommaVariants(cs) ==
    { WithCommas(cs, positions, pad, 1) :
        positions \in {{i} : i \in Closings(cs)} \cup {Closings(cs)},
        pad \in {<< >>, <<" ">>} }

FencedVariants(cs) ==
    { <<Fence, Tag, "\n">> \o cs \o <<"\n", Fence>>,
      <<Fence, "\n">> \o cs \o <<"\n", Fence>> }

\* outputs that are no array of objects: nothing, prose, a number, an array
\* of numbers, a doubled comma, and every cut-off array of one object
OtherOutputs ==
    { << >>, <<"not", " ", "json">>, <<"4">>, <<"[", "4", ",", " ", "2", "]">>,
      <<"[", "{", "}", ",", ",", "]">> }
      \cup { SubSeq(HypothesisObject(<<"worry">>), 1, k) :
                k \in 1..Len(HypothesisObject(<<"worry">>)) - 1 }

\* two calls of act: on an output, and on a variant of it (the output itself
\* when it is no clean array); response holds what each call returned
InitDiagnostician ==
    /\ driver = "DiagnosticianAgent.act"
    /\ agents = TRUE
    /\ node = "call"
    /\ session = InitialState(1, FALSE)
    /\ hist = NoHist
    /\ resumes = 0
    /\ requests = 0
    /\ pc = [t \in Threads |-> "idle"]
    /\ response = [t \in Threads |-> << >>]
    /\ \E base \in CleanArrays \cup SingleObjects \cup OtherOutputs :
          \E variant \in IF base \in CleanArrays
                         THEN TrailingCommaVariants(base) \cup FencedVariants(base)
                         ELSE {base} :
              input = [t \in Threads |-> IF t = 1 THEN base ELSE variant]

DiagnosticianCall(t) ==
    /\ driver = "DiagnosticianAgent.act" /\ pc[t] = "idle"
    /\ response' = [response EXCEPT ![t] = ParseHypotheses(input[t])]
    /\ pc' = [pc EXCEPT ![t] = "returned"]
    /\ UNCHANGED <<session, driver, agents, node, hist, resumes, requests, input>>

NextDiagnostician == \E t \in Threads : DiagnosticianCall(t)

SpecDiagnostician == InitDiagnostician /\ [][NextDiagnostician]_vars

\* EvidenceAuditorAgent.act on its own.  The texts of the claims, of the
\* transcript turns and of the retrieved chunks, by name
AuditChars(t) ==
    CASE t = "a_anxious" -> <<"A", "n", "x", "i", "o", "u", "s">>
      [] t = "a_mood"    -> <<" ", "b", "a", "d", " ", "M", "o", "o", "d", " ">>
      [] t = "a_grand"   -> <<"g", "r", "a", "n", "d", "i", "o", "s", "i", "t", "y">>
      [] t = "a_short"   -> <<"n", "o", ",", " ", "o", "k">>
      [] t = "a_sleep"   -> <<"u", "n", "a", "b", "l", "e", " ", "t", "o", " ",
                              "s", "l", "e", "e", "p">>
      [] t = "a_feel"    -> <<"I", " ", "f", "e", "e", "l", " ", "a", "n", "x",
                              "i", "o", "u", "s", ".">>
      [] t = "a_moody"   -> <<"M", "O", "O", "D", "Y">>
      [] t = "a_chunk"   -> <<"S", "l", "e", "e", "p", "-", "w", "a", "k", "e",
                              " ", "7", "A", "0", "0">>

ClaimSet == {"a_anxious", "a_mood", "a_grand", "a_short", "a_sleep"}

\* \w: letters, digits and the underscore
WordChar(c) ==
    \/ \E i \in 1..Len(LowerCase) : c = LowerCase[i] \/ c = UpperCase[i]
    \/ c \in Digits
    \/ c = "_"

\* re.split(r"\W+", claim): the pieces between the runs of non-word
\* characters, the empty pieces at either end included
RECURSIVE Split(_, _, _)
Split(cs, piece, pieces) ==
    IF cs = << >> THEN Append(pieces, piece)
    ELSE IF WordChar(Head(cs)) THEN Split(Tail(cs), Append(piece, Head(cs)), pieces)
    ELSE IF Len(cs) > 1 /\ ~WordChar(cs[2]) THEN Split(Tail(cs), piece, pieces)
    ELSE Split(Tail(cs), << >>, Append(pieces, piece))

MIN_TOKEN_LEN == 4

\* tokens of five characters or more only
TokensMinFive(claim) ==
    SelectSeq(Split(claim, << >>, << >>), LAMBDA t : Len(t) >= MIN_TOKEN_LEN + 1)

\* [t for t in re.split(r"\W+", claim) if len(t) >= self._MIN_TOKEN_LEN]
Tokens(claim) ==
    SelectSeq(Split(claim, << >>, << >>), LAMBDA t : Len(t) >= MIN_TOKEN_LEN)

\* token in corpus
Substring(token, corpus) ==
    \E i \in 1..(Len(corpus) - Len(token) + 1) :
        SubSeq(corpus, i, i + Len(token) - 1) = token

\* _is_grounded(claim, corpus)
is_grounded(claim, corpus) ==
    LET tokens == Tokens(claim)
    IN  IF tokens = << >> THEN TRUE
        ELSE \E k \in 1..Len(tokens) : Substring(tokens[k], corpus)

\* " ".join(x.get("content", "") for x in xs).lower()
RECURSIVE JoinLower(_)
JoinLower(contents) ==
    IF contents = << >> THEN << >>
    ELSE IF Len(contents) = 1 THEN LowerSeq(AuditChars(contents[1]))
    ELSE LowerSeq(AuditChars(contents[1])) \o <<" ">> \o JoinLower(Tail(contents))

TranscriptText(s) ==
    JoinLower([i \in 1..Len(s.transcript) |-> s.transcript[i].content])

ChunkText(s) == JoinLower(s.retrieved_chunks)

\* lines 57-61: str(claim).lower().strip() is grounded in either corpus
ClaimGrounded(transcript_text, chunk_text, claim) ==
    LET claim_str == Strip(LowerSeq(AuditChars(claim)))
    IN  is_grounded(claim_str, transcript_text) \/ is_grounded(claim_str, chunk_text)

\* hypothesis.get("label", "Unknown")
NoLabel == "None"
LabelOf(hypothesis) ==
    IF hypothesis.label = NoLabel THEN "Unknown" ELSE hypothesis.label

NoMatchReason == "No matching evidence found in transcript or retrieved chunks."

\* lines 51-70: the loop over hypotheses and their claims, from the counters
\* and issues gathered so far
RECURSIVE AuditLoop(_, _, _, _)
AuditLoop(transcript_text, chunk_text, hypotheses, counted) ==
    IF hypotheses = << >> THEN counted
    ELSE LET hypothesis == Head(hypotheses)
             ungrounded == SelectSeq(hypothesis.evidence_for,
                                     LAMBDA claim :
                                        ~ClaimGrounded(transcript_text, chunk_text, claim))
         IN  AuditLoop(transcript_text, chunk_text, Tail(hypotheses),
                [total_claims |-> counted.total_claims + Len(hypothesis.evidence_for),
                 grounded_claims |-> counted.grounded_claims
                        + Len(hypothesis.evidence_for) - Len(ungrounded),
                 issues |-> counted.issues \o
                        [i \in 1..Len(ungrounded) |->
                            [hypothesis |-> LabelOf(hypothesis),
                             claim |-> ungrounded[i],
                             reason |-> NoMatchReason]]])

\* the score in units of 10^-4: round(x, 4)
SCORE_DIGITS == 4
ScoreUnits == 10 ^ SCORE_DIGITS

\* round(n / d, 4) in score units, halves to the even neighbour
Round(n, d) ==
    LET q == (n * ScoreUnits) \div d
        r == (n * ScoreUnits) % d
    IN  IF 2 * r < d THEN q
        ELSE IF 2 * r > d THEN q + 1
        ELSE IF q % 2 = 0 THEN q ELSE q + 1

\* the score with no claims counted as 0.0
TraceabilityScoreZeroWhenEmpty(grounded_claims, total_claims) ==
    IF total_claims > 0 THEN Round(grounded_claims, total_claims) ELSE 0

\* line 72
TraceabilityScore(grounded_claims, total_claims) ==
    IF total_claims > 0 THEN Round(grounded_claims, total_claims) ELSE ScoreUnits

\* BaseAgent._generate as a function of the backend: "" without a backend or
\* when every attempt raised, else the first answer
GenerateReturns(backend) ==
    LET answered == {k \in 1..Attempts : backend.outcomes[k] # "raise"}
    IN  IF backend.llm = "absent" \/ answered = {} THEN "t_empty"
        ELSE backend.outcomes[First(answered)]

NoCommentary == "None"

\* lines 74-76 and _request_llm_commentary
Commentary(s, backend) ==
    IF backend.llm # "absent" /\ s.hypotheses # << >>
    THEN GenerateReturns(backend)
    ELSE NoCommentary

\* the report with verified taken from the score instead of the issues
AuditReportVerifiedByScore(s, backend) ==
    LET transcript_text == TranscriptText(s)
        chunk_text == ChunkText(s)
        counted == AuditLoop(transcript_text, chunk_text, s.hypotheses,
                        [total_claims |-> 0, grounded_claims |-> 0, issues |-> << >>])
    IN  [verified |->
             TraceabilityScore(counted.grounded_claims, counted.total_claims) = ScoreUnits,
         traceability_score |->
             TraceabilityScore(counted.grounded_claims, counted.total_claims),
         total_claims |-> counted.total_claims,
         grounded_claims |-> counted.grounded_claims,
         issues |-> counted.issues,
         llm_commentary |-> Commentary(s, backend)]

\* act: the report
AuditReport(s, backend) ==
    LET transcript_text == TranscriptText(s)
        chunk_text == ChunkText(s)
        counted == AuditLoop(transcript_text, chunk_text, s.hypotheses,
                        [total_claims |-> 0, grounded_claims |-> 0, issues |-> << >>])
    IN  [verified |-> Len(counted.issues) = 0,
         traceability_score |->
             TraceabilityScore(counted.grounded_claims, counted.total_claims),
         total_claims |-> counted.total_claims,
         grounded_claims |-> counted.grounded_claims,
         issues |-> counted.issues,
         llm_commentary |-> Commentary(s, backend)]

\* the states the auditor is called on: hypotheses with up to MaxClaims
\* claims in the first and at most one in each further one, with and without
\* a label; a hypothesis with LargeTotal claims, all grounded or all but one
\* (audited against the transcript that grounds them, without a backend);
\* a transcript and chunks that ground some of the claims, or none
EvidenceLists(n) == UNION { [1..k -> ClaimSet] : k \in 0..n }

AuditedHypotheses ==
    { << >> } \cup
    UNION { { <<first>> \o others :
                first \in [label : {"GAD", NoLabel},
                           evidence_for : EvidenceLists(MaxClaims)],
                others \in [1..n - 1 -> [label : {"MDD"},
                                        evidence_for : { << >>, <<"a_sleep">> }]] }
            : n \in 1..MaxHypotheses }

LongHypotheses ==
    { << [label |-> "GAD",
          evidence_for |-> [i \in 1..LargeTotal |->
                               IF i = k THEN "a_grand" ELSE "a_anxious"]] >>
        : k \in 0..1 }

AuditedTranscripts ==
    { << >>,
      <<Entry("therapist", "a_feel", "mood", 0), Entry("client", "a_moody", NoDomain, 1)>> }

AuditedChunks == { << >>, <<"a_chunk">> }

AuditBackends ==
    { [llm |-> "absent", outcomes |-> << >>] }
    \cup { [llm |-> "present", outcomes |-> o] :
              o \in [1..Attempts -> {"raise", "t_safe"}] }

InitAuditor ==
    /\ UnitInit("EvidenceAuditorAgent.act")
    /\ \E hs \in AuditedHypotheses \cup LongHypotheses, tr \in AuditedTranscripts,
          chunks \in AuditedChunks, backend \in AuditBackends :
          /\ backend.llm = "absent" \/ Len(hs) <= 1
          /\ hs \in LongHypotheses
                => backend.llm = "absent" /\ tr # << >> /\ chunks = << >>
          /\ session = [InitialState(1, FALSE) EXCEPT
                            !.hypotheses = hs,
                            !.transcript = tr,
                            !.retrieved_chunks = chunks]
          /\ input = [t \in Threads |-> backend]

AuditorCall ==
    /\ driver = "EvidenceAuditorAgent.act" /\ node = "call"
    /\ session' = [session EXCEPT !.audit_report = AuditReport(session, input[1])]
    /\ node' = "returned"
    /\ UNCHANGED <<driver, agents, response, hist, resumes, requests, pc, input>>

NextAuditor == AuditorCall

SpecAuditor == InitAuditor /\ [][NextAuditor]_vars

\* HybridRetriever.retrieve on its own.  The vector store and the BM25 index
\* are libraries: what they return is drawn, the fusion is the code's.
Contents == {"c_mood", "c_worry", "c_sleep"}
NoCode == "None"

\* self.bm25_docs: a chunk with a code, one without metadata code, one whose
\* code is the empty string, and a second copy of the chunk without code
\* (nothing keeps two corpus entries from having the same content)
Bm25Corpus ==
    << [content |-> "c_mood", code |-> "6A70"],
       [content |-> "c_worry", code |-> NoCode],
       [content |-> "c_sleep", code |-> ""],
       [content |-> "c_worry", code |-> NoCode] >>

\* similarity_search_with_score: up to top_k_dense documents, best first
DenseDocs == [content : Contents, code : {"6B00", NoCode}]
DenseResults == UNION { [1..n -> DenseDocs] : n \in 0..MaxRetrieved }

\* sorted(enumerate(bm25_scores), ...)[:top_k_bm25]: the corpus indices
\* (0-based) in some order, cut to top_k_bm25 = MaxRetrieved
Bm25Tops ==
    { SubSeq(order, 1, IF Len(order) < MaxRetrieved THEN Len(order) ELSE MaxRetrieved) :
        order \in Shuffles([i \in 1..Len(Bm25Corpus) |-> i - 1]) }

\* K = 60, and the scores as multiples of 1 / ScoreDen, the least common
\* denominator of the terms 1 / (K + rank + 1)
RRF_K == 60

RECURSIVE Gcd(_, _)
Gcd(a, b) == IF b = 0 THEN a ELSE Gcd(b, a % b)

RECURSIVE LcmUpTo(_)
LcmUpTo(n) ==
    IF n = 0 THEN 1
    ELSE (LcmUpTo(n - 1) * (RRF_K + n)) \div Gcd(LcmUpTo(n - 1), RRF_K + n)

ScoreDen == LcmUpTo(MaxRetrieved)

\* the term with the rank counted from one less
RrfTermWithoutPlusOne(rank) == ScoreDen \div (RRF_K + rank)

\* 1.0 / (K + rank + 1)
RrfTerm(rank) == ScoreDen \div (RRF_K + rank + 1)

NoDoc == [code |-> NoCode, source |-> "none"]

Unfused ==
    [keys |-> << >>, scores |-> [c \in Contents |-> 0], docs |-> [c \in Contents |-> NoDoc]]

\* the dense loop with a content listed again at every occurrence
RECURSIVE FuseDenseKeepsRepeats(_, _, _)
FuseDenseKeepsRepeats(dense_results, rank, fused) ==
    IF rank >= Len(dense_results) THEN fused
    ELSE LET doc == dense_results[rank + 1]
             key == doc.content
         IN  FuseDenseKeepsRepeats(dense_results, rank + 1,
                [keys |-> Append(fused.keys, key),
                 scores |-> [fused.scores EXCEPT ![key] = @ + RrfTerm(rank)],
                 docs |-> IF fused.docs[key] # NoDoc THEN fused.docs
                          ELSE [fused.docs EXCEPT
                                  ![key] = [code |-> doc.code, source |-> "dense"]]])

\* lines 44-52: the dense contributions, from rank on
RECURSIVE FuseDense(_, _, _)
FuseDense(dense_results, rank, fused) ==
    IF rank >= Len(dense_results) THEN fused
    ELSE LET doc == dense_results[rank + 1]
             key == doc.content
         IN  FuseDense(dense_results, rank + 1,
                [keys |-> IF InSeq(key, fused.keys) THEN fused.keys
                          ELSE Append(fused.keys, key),
                 scores |-> [fused.scores EXCEPT ![key] = @ + RrfTerm(rank)],
                 docs |-> IF fused.docs[key] # NoDoc THEN fused.docs
                          ELSE [fused.docs EXCEPT
                                  ![key] = [code |-> doc.code, source |-> "dense"]]])

\* lines 55-69: the BM25 contributions, from rank on
RECURSIVE FuseBm25(_, _, _)
FuseBm25(bm25_top, rank, fused) ==
    IF rank >= Len(bm25_top) THEN fused
    ELSE IF bm25_top[rank + 1] >= Len(Bm25Corpus)
    THEN FuseBm25(bm25_top, rank + 1, fused)
    ELSE LET bm25_doc == Bm25Corpus[bm25_top[rank + 1] + 1]
             key == bm25_doc.content
         IN  FuseBm25(bm25_top, rank + 1,
                [keys |-> IF InSeq(key, fused.keys) THEN fused.keys
                          ELSE Append(fused.keys, key),
                 scores |-> [fused.scores EXCEPT ![key] = @ + RrfTerm(rank)],
                 docs |-> IF fused.docs[key] # NoDoc
                          THEN [fused.docs EXCEPT ![key].source = "hybrid"]
                          ELSE [fused.docs EXCEPT
                                  ![key] = [code |-> bm25_doc.code, source |-> "bm25"]]])

\* Python's order of two key tuples of equal length
TupleLess(a, b) ==
    \E k \in 1..Len(a) : a[k] < b[k] /\ \A j \in 1..k - 1 : a[j] = b[j]

\* list.sort / sorted by a key (a function of the item) are stable: an item
\* moves behind the items of a smaller key and behind the earlier items of
\* an equal key
StableSort(items, key) ==
    LET place(i) ==
            Cardinality({j \in 1..Len(items) :
                            \/ TupleLess(key[items[j]], key[items[i]])
                            \/ key[items[j]] = key[items[i]] /\ j < i}) + 1
    IN  [p \in 1..Len(items) |-> items[CHOOSE i \in 1..Len(items) : place(i) = p]]

\* bool(docs[key].get("metadata", {}).get("code"))
HasCode(doc) == doc.code \notin {NoCode, ""}

\* line 72: sorted(scores.items(), key=lambda x: x[1], reverse=True)
RankedByScore(fused) ==
    StableSort(fused.keys, [c \in Contents |-> <<0 - fused.scores[c]>>])

\* the ranking without the priority of coded chunks
RankedWithoutPriority(fused) == RankedByScore(fused)

\* lines 75-80: ranked.sort(key=_priority), the key (0 or 1, -score)
Ranked(fused) ==
    StableSort(RankedByScore(fused),
               [c \in Contents |->
                   <<IF HasCode(fused.docs[c]) THEN 0 ELSE 1, 0 - fused.scores[c]>>])

\* round(score, 6): the digits of score / ScoreDen by long division, then
\* the half-to-even step on the remainder
RECURSIVE Digits6(_, _, _)
Digits6(quotient, remainder, digits) ==
    IF digits = 0
    THEN IF 2 * remainder < ScoreDen THEN quotient
         ELSE IF 2 * remainder > ScoreDen THEN quotient + 1
         ELSE IF quotient % 2 = 0 THEN quotient ELSE quotient + 1
    ELSE Digits6(quotient * 10 + (remainder * 10) \div ScoreDen,
                 (remainder * 10) % ScoreDen, digits - 1)

SCORE_ROUND == 6
RoundScore(score) == Digits6(score \div ScoreDen, score % ScoreDen, SCORE_ROUND)

\* _rrf_fusion: the first top_k_final of the ranking, with the rounded score
rrf_fusion(dense_results, bm25_top, top_k_final) ==
    LET fused == FuseBm25(bm25_top, 0, FuseDense(dense_results, 0, Unfused))
        ranked == Ranked(fused)
        kept == IF Len(ranked) < top_k_final THEN Len(ranked) ELSE top_k_final
    IN  [i \in 1..kept |->
            [content |-> ranked[i],
             code |-> fused.docs[ranked[i]].code,
             source |-> fused.docs[ranked[i]].source,
             score |-> RoundScore(fused.scores[ranked[i]])]]

\* retrieve(query): input holds what the two searches returned and
\* top_k_final, response the list returned
InitRetrieve ==
    /\ driver = "HybridRetriever.retrieve"
    /\ agents = FALSE
    /\ node = "call"
    /\ session = InitialState(1, FALSE)
    /\ hist = NoHist
    /\ resumes = 0
    /\ requests = 0
    /\ pc = [t \in Threads |-> "idle"]
    /\ response = << >>
    /\ \E dense_results \in DenseResults, bm25_top \in Bm25Tops,
          top_k_final \in 1..MaxRetrieved :
          input = [t \in Threads |->
                      [dense_results |-> dense_results, bm25_top |-> bm25_top,
                       top_k_final |-> top_k_final]]

RetrieveCall ==
    /\ driver = "HybridRetriever.retrieve" /\ node = "call"
    /\ response' = rrf_fusion(input[1].dense_results, input[1].bm25_top,
                              input[1].top_k_final)
    /\ node' = "returned"
    /\ UNCHANGED <<session, driver, agents, hist, resumes, requests, pc, input>>

NextRetrieve == RetrieveCall

SpecRetrieve == InitRetrieve /\ [][NextRetrieve]_vars

\* retrieve_context on its own, with the retrieval calls spelled out.  The
\* pipeline is there or not (get_rag_pipeline returns None when the index is
\* missing or its set-up raised); every retriever call returns a list or
\* raises.
Chunk(content, source) == [content |-> content, source |-> source]

\* lines 463-489: the two fixed chunk pairs
FallbackChunks(language) ==
    IF language = "Español"
    THEN <<Chunk("mock_es_6A70", "mock"), Chunk("mock_es_6B00", "mock")>>
    ELSE <<Chunk("mock_en_6A70", "mock"), Chunk("mock_en_6B00", "mock")>>

\* QueryBuilder.build_queries: the semantic query is the text of the last
\* turn.  The exact terms are the builder's to choose: the strategy at line
\* 30 returns none, the contract at lines 19-23 lists codes and terms.
build_queries(transcript, exact) ==
    [semantic |-> IF transcript = << >> THEN << >>
                  ELSE TextChars(transcript[Len(transcript)].content),
     exact |-> exact]

\* lines 446-452: the first chunk of each content, in order
Deduped(chunks) ==
    SelectSeq([i \in 1..Len(chunks) |-> [at |-> i, chunk |-> chunks[i]]],
              LAMBDA e : \A j \in 1..e.at - 1 : chunks[j].content # e.chunk.content)

Chunks(entries) == [i \in 1..Len(entries) |-> entries[i].chunk]

\* lines 445-453: the cap of deduped[:6]
MAX_CHUNKS == 6

DedupAndCap(chunks) ==
    LET deduped == Chunks(Deduped(chunks))
    IN  SubSeq(deduped, 1, IF Len(deduped) < MAX_CHUNKS THEN Len(deduped) ELSE MAX_CHUNKS)

\* lines 433-436: the exact queries from the k-th on; outcomes[call] is what
\* the retriever does at its call-th call.  retrieved_chunks is extended in
\* place, so when a call raises the list keeps what the earlier calls put
\* into it and line 453 is not reached.
RECURSIVE ExactQueries(_, _, _, _, _)
ExactQueries(exact, k, outcomes, call, retrieved_chunks) ==
    IF k > Len(exact) THEN [raised |-> FALSE, retrieved_chunks |-> retrieved_chunks]
    ELSE IF outcomes[call].raises
    THEN [raised |-> TRUE, retrieved_chunks |-> retrieved_chunks]
    ELSE ExactQueries(exact, k + 1, outcomes, call + 1,
                      retrieved_chunks \o outcomes[call].chunks)

\* lines 418-460: the try block
TryRetrieval(queries, outcomes) ==
    LET semantic == queries.semantic # << >>
    IN  IF semantic /\ outcomes[1].raises
        THEN [raised |-> TRUE, retrieved_chunks |-> << >>]
        ELSE LET after == ExactQueries(queries.exact, 1, outcomes,
                                       IF semantic THEN 2 ELSE 1,
                                       IF semantic THEN outcomes[1].chunks ELSE << >>)
             IN  IF after.raised THEN after
                 ELSE [raised |-> FALSE,
                       retrieved_chunks |-> DedupAndCap(after.retrieved_chunks)]

\* lines 407-494: the retrieved_chunks of the dict returned
RetrievedChunks(rag_pipeline, transcript, language, exact, outcomes) ==
    LET retrieved_chunks ==
            IF rag_pipeline /\ Len(transcript) > 0
            THEN TryRetrieval(build_queries(transcript, exact), outcomes).retrieved_chunks
            ELSE << >>
    IN  IF retrieved_chunks = << >> THEN FallbackChunks(language)
        ELSE retrieved_chunks

\* what HybridRetriever.retrieve can return: lists without repeated content
\* of at most top_k_final = 6 chunks, with the retriever's source labels
RetrieverLists ==
    { << >>,
      <<Chunk("k1", "hybrid"), Chunk("k2", "dense")>>,
      <<Chunk("k2", "bm25"), Chunk("k3", "dense")>>,
      <<Chunk("k1", "dense"), Chunk("k2", "hybrid"), Chunk("k3", "bm25"),
        Chunk("k4", "dense"), Chunk("k5", "dense"), Chunk("k6", "bm25")>>,
      <<Chunk("k7", "dense"), Chunk("k1", "bm25")>> }

RetrieverOutcomes ==
    { [raises |-> TRUE, chunks |-> << >>] }
    \cup { [raises |-> FALSE, chunks |-> chunks] : chunks \in RetrieverLists }

ExactTerms == UNION { [1..n -> {"6A70"}] : n \in 0..MaxExact }

QueriedTranscripts ==
    { << >>,
      <<Entry("therapist", "t_safe", "mood", 0), Entry("client", "t_safe", NoDomain, 1)>>,
      <<Entry("therapist", "t_safe", "mood", 0), Entry("client", "t_empty", NoDomain, 1)>> }

InitRetrieveContext ==
    /\ UnitInit("retrieve_context")
    /\ \E rag_pipeline \in BOOLEAN, tr \in QueriedTranscripts,
          language \in {"Español", "English"}, exact \in ExactTerms,
          outcomes \in [1..MaxExact + 1 -> RetrieverOutcomes] :
          \* calls that are never made have no outcome to draw
          /\ LET calls == IF rag_pipeline /\ tr # << >>
                          THEN Len(exact)
                               + (IF build_queries(tr, exact).semantic # << >>
                                  THEN 1 ELSE 0)
                          ELSE 0
             IN  \A k \in 1..MaxExact + 1 :
                    k > calls => outcomes[k] = [raises |-> FALSE, chunks |-> << >>]
          /\ session = [InitialState(1, FALSE) EXCEPT !.transcript = tr]
          /\ input = [t \in Threads |->
                         [rag_pipeline |-> rag_pipeline, language |-> language,
                          exact |-> exact, outcomes |-> outcomes]]

RetrieveContextCall ==
    /\ driver = "retrieve_context" /\ node = "call"
    /\ response' = RetrievedChunks(input[1].rag_pipeline, session.transcript,
                                   input[1].language, input[1].exact,
                                   input[1].outcomes)
    /\ node' = "returned"
    /\ UNCHANGED <<session, driver, agents, hist, resumes, requests, pc, input>>

NextRetrieveContext == RetrieveContextCall

SpecRetrieveContext == InitRetrieveContext /\ [][NextRetrieveContext]_vars

\* coverage_check on its own, applied twice in a row: node is "call", then
\* "once", then "twice"; input keeps the state given, response the state
\* after the first application.
DomainLists ==
    { xs \in UNION { [1..n -> {Catalogue[i] : i \in 1..Len(Catalogue)}] :
                        n \in 0..Len(Catalogue) } :
        \A i, j \in 1..Len(xs) : i # j => xs[i] # xs[j] }

\* transcripts of therapist turns tagged with a domain and of client turns
TaggedTranscripts ==
    UNION { { [i \in 1..n |->
                 IF f[i] = NoDomain THEN Entry("client", "t_safe", NoDomain, i - 1)
                 ELSE Entry("therapist", "t_safe", f[i], i - 1)] :
              f \in [1..n -> {NoDomain} \cup {Catalogue[i] : i \in 1..Len(Catalogue)}] }
            : n \in 0..MaxTagged }

InitCoverageCheck ==
    /\ UnitInit("coverage_check")
    /\ \E tr \in TaggedTranscripts, covered \in DomainLists, pending \in DomainLists,
          turn_count \in 0..1, max_turns \in 0..MaxMaxTurns, flag \in BOOLEAN :
          /\ session = [InitialState(max_turns, FALSE) EXCEPT
                            !.transcript = tr,
                            !.domains_covered = covered,
                            !.domains_pending = pending,
                            !.turn_count = turn_count,
                            !.coverage_complete = flag]
          /\ input = [t \in Threads |-> session]

CoverageCheckCall ==
    /\ driver = "coverage_check" /\ node = "call"
    /\ session' = coverage_check(session)
    /\ node' = "once"
    /\ UNCHANGED <<driver, agents, response, hist, resumes, requests, pc, input>>

CoverageCheckAgain ==
    /\ driver = "coverage_check" /\ node = "once"
    /\ response' = session
    /\ session' = coverage_check(session)
    /\ node' = "twice"
    /\ UNCHANGED <<driver, agents, hist, resumes, requests, pc, input>>

NextCoverageCheck ==
    \/ CoverageCheckCall
    \/ CoverageCheckAgain

SpecCoverageCheck == InitCoverageCheck /\ [][NextCoverageCheck]_vars

----------------------------------------------------------------------------
(* Properties *)

Conflicts == {"409_finalized", "409_risk"}
Rejections == Conflicts \cup {"422"}

\* number of therapist entries in a transcript
TherapistTurns(tr) == Cardinality({i \in 1..Len(tr) : tr[i].role = "therapist"})

\* states a caller can observe: any state of the REST store, and the graph
\* when a run has ended or is interrupted for human input
Observable == driver = "rest" \/ node \in {"END", "human_input"}

\* C1: an endpoint call on a session with finalized or risk_detected set ends
\* with a conflict response and runs no node.
C1_AdvanceOnTerminalIsConflict ==
    [][driver = "rest" /\ (session.finalized \/ session.risk_detected)
         => response' \in Conflicts /\ hist' = hist]_vars

\* C2: in every observable state risk_detected implies finalized, for the
\* graph and for the turn endpoint alike.
C2_RiskImpliesFinalized ==
    Observable /\ session.risk_detected => session.finalized

\* C3: once risk_detected is true it stays true, and no later operation
\* appends a turn or increments turn_count.
C3_RiskHaltIsPermanent ==
    [][session.risk_detected
         => /\ session'.risk_detected
            /\ session'.transcript = session.transcript
            /\ session'.turn_count = session.turn_count]_vars

\* C4: once finalized is true it never becomes false, and transcript,
\* turn_count, the domain lists, retrieved_chunks, hypotheses and
\* audit_report no longer change.
C4_FinalizedIsOneWay ==
    [][session.finalized
         => /\ session'.finalized
            /\ session'.transcript = session.transcript
            /\ session'.turn_count = session.turn_count
            /\ session'.domains_pending = session.domains_pending
            /\ session'.domains_covered = session.domains_covered
            /\ session'.retrieved_chunks = session.retrieved_chunks
            /\ session'.hypotheses = session.hypotheses
            /\ session'.audit_report = session.audit_report]_vars

\* C5: two requests on one session id are never in flight at the same time:
\* the second is rejected or starts only after the first has returned.
C5_RequestsNeverOverlap ==
    Cardinality({t \in Threads : pc[t] # "idle"}) <= 1

\* C6: a call that is rejected (409 on a finalized or halted session, 422 on
\* missing human_input) leaves the stored session state as it was.
C6_RejectedCallLeavesState ==
    [][driver = "rest" /\ response' \in Rejections => session' = session]_vars

AfterCoverageCheck ==
    \/ driver = "rest" /\ response = "ok"
    \/ driver = "graph" /\ node = "retrieve_context"
    \/ driver = "graph" /\ node = "therapist_ask"
                        /\ session.current_step # "init_session"

C8_TurnCountIsTherapistTurns ==
    session.turn_count = TherapistTurns(session.transcript)

\* C9: once turn_count has reached max_turns (max_turns >= 1) no further
\* therapist question is asked, so turn_count never exceeds max_turns; stated
\* for auto mode, where turn_count moves only with therapist_ask.
C9_NoQuestionPastMaxTurns ==
    ~session.interactive_mode /\ session.max_turns >= 1
        => session.turn_count <= session.max_turns

\* C10: the finalisation pipeline runs at most once per session:
\* retrieve_context, diagnostician_draft, evidence_audit and the finalize
\* step each execute at most once.
C10_PipelineAtMostOnce ==
    /\ hist.retrieve_context <= 1
    /\ hist.diagnostician_draft <= 1
    /\ hist.evidence_audit <= 1
    /\ hist.finalize <= 1

\* the raw texts of the diagnostician that the hypotheses of s carry
DraftTexts(s) ==
    { s.hypotheses[i].evidence_for[1] :
        i \in { j \in 1..Len(s.hypotheses) : s.hypotheses[j].label = ParseErrorLabel } }

\* C11: the text RiskGate inspects after the diagnostician draft is the text
\* the diagnostician just produced, so a graph run never goes on to
\* evidence_audit with a risky draft: it goes to safe_exit instead.
C11_RiskyDraftGoesToSafeExit ==
    (driver = "graph" /\ node = "evidence_audit")
        => \A t \in DraftTexts(session) : ~RiskGateCheck(t)[1]

\* C14: whatever the backend returned, diagnostician_draft and evidence_audit
\* complete without raising: no finalize call ends in a 500, no graph run
\* ends in an exception, and a finished pipeline has stored a non-empty
\* hypotheses list and an audit report.
C14_PipelineNeverRaises ==
    /\ response # "500"
    /\ node # "raised"
    /\ (response = "finalized" \/ session.current_step = "finalized")
          => /\ session.finalized
             /\ session.hypotheses # << >>
             /\ session.audit_report # NoReport

LastEntry(tr) == tr[Len(tr)]

\* C12: the result of risk_check depends only on the last transcript entry:
\* an empty transcript gives (false, null), otherwise the flags are RiskGate's
\* verdict on the last entry's content, and every other transcript that ends
\* with the same content gives the same flags whatever comes before.
C12_RiskCheckReadsLastEntryOnly ==
    (driver = "risk_check" /\ node = "returned") =>
        LET tr == session.transcript
        IN  /\ tr = << >> => ~session.risk_detected /\ session.risk_type = NoRisk
            /\ tr # << >> =>
                  /\ <<session.risk_detected, session.risk_type>>
                        = RiskGateCheck(LastEntry(tr).content)
                  /\ \A other \in CheckedTranscripts :
                        (other # << >>
                           /\ LastEntry(other).content = LastEntry(tr).content)
                        => LET r == risk_check([session EXCEPT !.transcript = other])
                           IN  /\ r.risk_detected = session.risk_detected
                               /\ r.risk_type = session.risk_type

\* a risky earlier entry followed by a safe last entry was checked and passed
C12_Witness ==
    /\ driver = "risk_check" /\ node = "returned"
    /\ Len(session.transcript) >= 2
    /\ RiskGateCheck(session.transcript[1].content)[1]
    /\ ~RiskGateCheck(LastEntry(session.transcript).content)[1]
    /\ ~session.risk_detected

\* C13: RiskGate.check flags (true, non-null type) every text that contains
\* a configured risk term in any letter case, returns (false, null) for every
\* text that contains none, so also for the empty string, and is_risky is
\* true exactly when risk_type is non-null.
C13_RiskGateFlagsExactlyTheTerms ==
    (driver = "RiskGate.check" /\ node = "returned") =>
        LET arg == input[1]
        IN  /\ arg.term # 0 => response[1] = TRUE /\ response[2] # NoRisk
            /\ arg.term = 0 => response = <<FALSE, NoRisk>>
            /\ arg.text = << >> => response = <<FALSE, NoRisk>>
            /\ response[1] <=> response[2] # NoRisk

\* a padded risk term written in capitals was checked and flagged
C13_Witness ==
    /\ driver = "RiskGate.check" /\ node = "returned"
    /\ input[1].term # 0
    /\ input[1].text # LowerSeq(input[1].text)
    /\ Len(input[1].text) > Len(RISK_KEYWORDS[input[1].term])
    /\ response = <<TRUE, RiskLabel>>

\* C15: one generation call invokes the backend at most twice and not at all
\* when the backend is absent; it returns the text of the first attempt that
\* succeeds, after exactly that many calls, and the empty string when the
\* backend is absent or both attempts fail.
C15_GenerateRetriesOnce ==
    driver = "_generate" =>
        LET backend == input[1]
            o == backend.outcomes
        IN  /\ requests <= 2
            /\ backend.llm = "absent" => requests = 0
            /\ (node = "returned" /\ backend.llm = "absent") => response = "t_empty"
            /\ (node = "returned" /\ backend.llm = "present") =>
                  IF o[1] # "raise" THEN response = o[1] /\ requests = 1
                  ELSE IF o[2] # "raise" THEN response = o[2] /\ requests = 2
                  ELSE response = "t_empty" /\ requests = 2

\* the first attempt raised, the retry answered, and its text was returned
C15_Witness ==
    /\ driver = "_generate" /\ node = "returned"
    /\ input[1].llm = "present"
    /\ input[1].outcomes[1] = "raise"
    /\ input[1].outcomes[2] = "t_safe"
    /\ response = "t_safe"
    /\ requests = 2

\* the domains tagged on the therapist turns of a transcript, in order
RECURSIVE TherapistDomains(_)
TherapistDomains(tr) ==
    IF tr = << >> THEN << >>
    ELSE IF Head(tr).role = "therapist"
         THEN <<Head(tr).domain>> \o TherapistDomains(Tail(tr))
         ELSE TherapistDomains(Tail(tr))

NoDuplicates(xs) == \A i, j \in 1..Len(xs) : xs[i] = xs[j] => i = j

\* C16: every therapist turn is tagged with the head of domains_pending at
\* the time of the question, so the domains tagged on the therapist turns of
\* a session are pairwise distinct.
C16_TherapistDomainsDistinct ==
    driver \in {"rest", "graph"} => NoDuplicates(TherapistDomains(session.transcript))

\* xs is ys with some elements left out, the others in the order of ys
RECURSIVE KeepsOrder(_, _)
KeepsOrder(xs, ys) ==
    IF xs = << >> THEN TRUE
    ELSE IF ys = << >> THEN FALSE
    ELSE IF Head(xs) = Head(ys) THEN KeepsOrder(Tail(xs), Tail(ys))
    ELSE KeepsOrder(xs, Tail(ys))

\* C17: once the permutation is chosen, no operation reshuffles it: whatever
\* an operation leaves in domains_pending is what was there before, with some
\* domains removed and the others in the same relative order.
C17_PermutationNeverReshuffled ==
    [][ (driver \in {"rest", "graph"} /\ session.current_step # "created")
          => KeepsOrder(session'.domains_pending, session.domains_pending) ]_vars

SeqSet(xs) == { xs[i] : i \in 1..Len(xs) }

\* C18: in every state of a created session domains_pending and
\* domains_covered are duplicate-free, disjoint, and together hold exactly
\* the domains of the catalogue.
C18_PendingCoveredPartition ==
    (driver \in {"rest", "graph"} /\ session.current_step # "created") =>
        /\ NoDuplicates(session.domains_pending)
        /\ NoDuplicates(session.domains_covered)
        /\ SeqSet(session.domains_pending) \cap SeqSet(session.domains_covered) = {}
        /\ SeqSet(session.domains_pending) \cup SeqSet(session.domains_covered)
              = SeqSet(Catalogue)

\* domains_covered holds exactly the domains tagged on therapist turns
CoveredTracksTranscript ==
    SeqSet(session.domains_covered) = SeqSet(TherapistDomains(session.transcript))

\* C19: every operation leaves a state in which, when it is observable, a
\* domain is in domains_covered exactly when a therapist turn tagged with it
\* is in the transcript, and no operation moves a covered domain back to
\* domains_pending.
C19_CoveredTracksTranscript ==
    [][ (driver \in {"rest", "graph"}) =>
          ( /\ Observable' => CoveredTracksTranscript'
            /\ SeqSet(session.domains_covered)
                  \cap SeqSet(session'.domains_pending) = {} ) ]_vars

\* the domain tags carried by the entries of a transcript
DomainTags(tr) == { tr[i].domain : i \in 1..Len(tr) } \ {NoDomain}

\* C20: in every reachable state every domain tag on a transcript entry is a
\* member of domains_pending or of domains_covered.
C20_TagsArePendingOrCovered ==
    driver \in {"rest", "graph"} =>
        DomainTags(session.transcript)
            \subseteq SeqSet(session.domains_pending) \cup SeqSet(session.domains_covered)

\* every domain is covered, nothing is pending, and one more question was
\* asked and tagged all the same
C20_Witness ==
    /\ driver = "rest"
    /\ session.domains_pending = << >>
    /\ Len(TherapistDomains(session.transcript)) > Len(Catalogue)
    /\ DomainTags(session.transcript) = SeqSet(session.domains_covered)

\* C21: init_session on a state whose domains_pending is empty returns a
\* permutation of the catalogue: every domain, none twice, none left out.
C21_InitSessionReturnsPermutation ==
    (driver = "init_session" /\ node = "returned" /\ input[1] = << >>) =>
        /\ Len(session.domains_pending) = Len(ShuffledCatalogue)
        /\ NoDuplicates(session.domains_pending)
        /\ SeqSet(session.domains_pending) = SeqSet(ShuffledCatalogue)

\* a fresh initialisation returned an order other than the catalogue's own
C21_Witness ==
    /\ driver = "init_session" /\ node = "returned"
    /\ input[1] = << >>
    /\ SeqSet(session.domains_pending) = SeqSet(ShuffledCatalogue)
    /\ session.domains_pending # ShuffledCatalogue

\* the step appended exactly one client turn, at the end of the transcript
AppendsOneClientTurn ==
    /\ Len(session'.transcript) = Len(session.transcript) + 1
    /\ SubSeq(session'.transcript, 1, Len(session.transcript)) = session.transcript
    /\ LastEntry(session'.transcript).role = "client"

\* C22: in a graph run, a therapist question that passes the risk check is
\* followed by the wait for human input if and only if interactive_mode is
\* true and by the synthetic client otherwise; the wait ends with exactly one
\* caller-supplied client turn and no synthetic one, the synthetic client
\* appends exactly one client turn, and coverage_check is only entered from
\* the risk_check of that client turn.
C22_ClientTurnByMode ==
    [][ (driver = "graph") =>
          /\ (node = "risk_check" /\ session.current_step = "therapist_ask"
                 /\ ~session'.risk_detected)
                => /\ node' = "human_input" <=> session.interactive_mode
                   /\ node' = "client_respond" <=> ~session.interactive_mode
          /\ (node = "human_input" /\ session' # session)
                => /\ AppendsOneClientTurn
                   /\ session'.current_step = "human_input"
                   /\ LastEntry(session'.transcript).content \in HumanInputs
                   /\ node' = "risk_check"
          /\ node = "client_respond"
                => /\ AppendsOneClientTurn
                   /\ session'.current_step = "client_respond"
                   /\ node' = "risk_check"
          /\ node' = "coverage_check"
                => /\ node = "risk_check"
                   /\ session.current_step
                         = (IF session.interactive_mode THEN "human_input"
                            ELSE "client_respond")
                   /\ LastEntry(session.transcript).role = "client"
                   /\ ~session'.risk_detected
      ]_vars

\* an interactive run took the human reply, checked it, and is about to
\* check coverage
C22_Witness ==
    /\ driver = "graph" /\ node = "coverage_check"
    /\ session.interactive_mode
    /\ session.current_step = "human_input"
    /\ LastEntry(session.transcript).role = "client"
    /\ ~session.risk_detected

\* C23: the transcript is append-only - every operation leaves the entries
\* it found, in place and unchanged, and at most adds entries after them -
\* and every entry's turn_id is its 0-based position.
C23_TranscriptAppendOnly ==
    [][ (driver \in {"rest", "graph"}) =>
          /\ Len(session'.transcript) >= Len(session.transcript)
          /\ SubSeq(session'.transcript, 1, Len(session.transcript))
                = session.transcript
          /\ \A i \in 1..Len(session'.transcript) :
                session'.transcript[i].turn_id = i - 1
      ]_vars

\* a stored transcript with two therapist turns and two human replies
C23_Witness ==
    /\ driver = "rest" /\ session.interactive_mode
    /\ response = "ok"
    /\ Len(session.transcript) >= 4
    /\ session.transcript[4].role = "client"
    /\ session.transcript[4].turn_id = 3

\* C24: an output that cannot be parsed after repair yields exactly one
\* record with low confidence, the raw output as its one evidence_for text
\* and the parse error as its one evidence_against text; and whatever the
\* output, every element of hypotheses is a hypothesis record (an object).
C24_HypothesesAreRecords ==
    (driver = "DiagnosticianAgent.act") =>
        \A t \in Threads : pc[t] = "returned" =>
            /\ ~json_loads(sanitise_json(extract_json_block(input[t]))).ok =>
                  /\ Len(response[t]) = 1
                  /\ response[t][1].confidence = "LOW"
                  /\ response[t][1].evidence_for = <<input[t]>>
                  /\ Len(response[t][1].evidence_against) = 1
            /\ \A i \in 1..Len(response[t]) : response[t][i].kind = "object"

\* the text of a JSON value without the white space outside its strings
RECURSIVE Compact(_, _)
Compact(cs, i) ==
    IF i > Len(cs) THEN << >>
    ELSE (IF /\ cs[i] \in WhiteSpace
             /\ Cardinality({j \in 1..i - 1 : cs[j] = Quote}) % 2 = 0
          THEN << >> ELSE <<cs[i]>>) \o Compact(cs, i + 1)

\* C25: for every clean JSON array of hypothesis objects the diagnostician
\* returns the same hypotheses for the array and for the array with a
\* trailing comma before a ] or } or inside a json-tagged or untagged fence;
\* and a single JSON object gives the one-element list holding that object.
C25_RepairsYieldSameList ==
    (driver = "DiagnosticianAgent.act") =>
        /\ (input[1] \in CleanArrays /\ pc[1] = "returned" /\ pc[2] = "returned")
              => response[2] = response[1]
        /\ \A t \in Threads :
              (input[t] \in SingleObjects /\ pc[t] = "returned")
                 => response[t] = << [kind |-> "object", dump |-> Compact(input[t], 1)] >>

RECURSIVE ClaimList(_)
ClaimList(hypotheses) ==
    IF hypotheses = << >> THEN << >>
    ELSE [i \in 1..Len(Head(hypotheses).evidence_for) |->
             [hypothesis |-> LabelOf(Head(hypotheses)),
              claim |-> Head(hypotheses).evidence_for[i]]]
         \o ClaimList(Tail(hypotheses))

\* C27: total_claims counts the evidence_for claims of all hypotheses, it is
\* grounded_claims plus the number of issues, issues holds one entry per
\* ungrounded claim (label and original text, in claim order), and verified
\* holds exactly when there is no issue.
C27_ReportCountsAndIssues ==
    (driver = "EvidenceAuditorAgent.act" /\ node = "returned") =>
        LET report == session.audit_report
            claims == ClaimList(session.hypotheses)
            ungrounded == SelectSeq(claims, LAMBDA c :
                              ~ClaimGrounded(TranscriptText(session), ChunkText(session),
                                             c.claim))
        IN  /\ report.total_claims = Len(claims)
            /\ report.total_claims = report.grounded_claims + Len(report.issues)
            /\ [i \in 1..Len(report.issues) |->
                    [hypothesis |-> report.issues[i].hypothesis,
                     claim |-> report.issues[i].claim]] = ungrounded
            /\ report.verified <=> report.issues = << >>

\* a report on two hypotheses with a grounded claim and an issue for each
\* of the two hypotheses
C27_Witness ==
    /\ driver = "EvidenceAuditorAgent.act" /\ node = "returned"
    /\ Len(session.hypotheses) = 2
    /\ session.audit_report.grounded_claims >= 1
    /\ Len(session.audit_report.issues) = 2
    /\ session.audit_report.issues[1].hypothesis = "Unknown"
    /\ session.audit_report.issues[2].hypothesis = "MDD"

\* the maximal runs of word characters of a text that are at least
\* MIN_TOKEN_LEN long
LongTokens(cs) ==
    { SubSeq(cs, p[1], p[2]) :
        p \in { r \in (1..Len(cs)) \X (1..Len(cs)) :
                  /\ r[2] - r[1] + 1 >= MIN_TOKEN_LEN
                  /\ \A k \in r[1]..r[2] : WordChar(cs[k])
                  /\ r[1] = 1 \/ ~WordChar(cs[r[1] - 1])
                  /\ r[2] = Len(cs) \/ ~WordChar(cs[r[2] + 1]) } }

\* the condition of C28 on one claim text
GroundedAsSpecified(claim) ==
    LET tokens == LongTokens(LowerSeq(AuditChars(claim)))
    IN  \/ tokens = {}
        \/ \E token \in tokens :
              \/ Substring(token, TranscriptText(session))
              \/ Substring(token, ChunkText(session))

\* C28: a claim counts as grounded exactly when its lowercased text has no
\* token of MIN_TOKEN_LEN characters or more, or one such token is a
\* substring of the lowercased joined transcript text or of the lowercased
\* joined chunk text; every other claim becomes an issue.
C28_GroundedIffTokenFound ==
    (driver = "EvidenceAuditorAgent.act" /\ node = "returned") =>
        LET report == session.audit_report
            claims == ClaimList(session.hypotheses)
        IN  /\ report.grounded_claims =
                  Cardinality({k \in 1..Len(claims) : GroundedAsSpecified(claims[k].claim)})
            /\ [i \in 1..Len(report.issues) |-> report.issues[i].claim]
                  = SelectSeq([k \in 1..Len(claims) |-> claims[k].claim],
                              LAMBDA c : ~GroundedAsSpecified(c))

\* no transcript: "unable to sleep" is grounded by the chunk text alone, while
\* " bad Mood " has the token mood and is grounded by nothing
C28_Witness ==
    /\ driver = "EvidenceAuditorAgent.act" /\ node = "returned"
    /\ session.transcript = << >> /\ session.retrieved_chunks # << >>
    /\ Len(session.hypotheses) = 1
    /\ session.hypotheses[1].evidence_for = <<"a_sleep", "a_mood">>
    /\ session.audit_report.grounded_claims = 1
    /\ Len(session.audit_report.issues) = 1
    /\ session.audit_report.issues[1].claim = "a_mood"

\* C29: the commentary is null when there is no backend, when hypotheses is
\* empty, and when every generation attempt failed; and in these cases the
\* score, the counts, the issues and verified are what they are without a
\* backend.
C29_CommentaryNullOnFailure ==
    (driver = "EvidenceAuditorAgent.act" /\ node = "returned") =>
        LET report == session.audit_report
            backend == input[1]
            failed == /\ backend.llm = "present"
                      /\ \A k \in 1..Attempts : backend.outcomes[k] = "raise"
        IN  (backend.llm = "absent" \/ session.hypotheses = << >> \/ failed)
               => /\ report.llm_commentary = NoCommentary
                  /\ [report EXCEPT !.llm_commentary = NoCommentary]
                        = AuditReport(session, [llm |-> "absent", outcomes |-> << >>])

\* the fused score of a content: 1 / (K + rank + 1) for each 0-based rank at
\* which a list holds it, in units of 1 / ScoreDen
RECURSIVE SumOfTerms(_)
SumOfTerms(ranks) ==
    IF ranks = {} THEN 0
    ELSE LET r == CHOOSE x \in ranks : TRUE
         IN  ScoreDen \div (RRF_K + r + 1) + SumOfTerms(ranks \ {r})

FusedScore(content) ==
    SumOfTerms({r \in 0..Len(input[1].dense_results) - 1 :
                    input[1].dense_results[r + 1].content = content})
    + SumOfTerms({r \in 0..Len(input[1].bm25_top) - 1 :
                    Bm25Corpus[input[1].bm25_top[r + 1] + 1].content = content})

\* the contents the two lists hold
Candidates ==
    { input[1].dense_results[i].content : i \in 1..Len(input[1].dense_results) }
    \cup { Bm25Corpus[input[1].bm25_top[i] + 1].content : i \in 1..Len(input[1].bm25_top) }

\* the metadata code of a candidate: that of the first dense document with
\* the content, else that of the corpus chunk
CandidateCode(content) ==
    LET dense == {i \in 1..Len(input[1].dense_results) :
                     input[1].dense_results[i].content = content}
    IN  IF dense # {} THEN input[1].dense_results[First(dense)].code
        ELSE Bm25Corpus[CHOOSE k \in 1..Len(Bm25Corpus) :
                            Bm25Corpus[k].content = content].code

Coded(code) == code # NoCode /\ code # ""

DenseContents ==
    { input[1].dense_results[i].content : i \in 1..Len(input[1].dense_results) }

LexicalContents ==
    { Bm25Corpus[input[1].bm25_top[i] + 1].content : i \in 1..Len(input[1].bm25_top) }

\* a list holds the same content at two places
DenseRepeats ==
    \E i, j \in 1..Len(input[1].dense_results) :
        i < j /\ input[1].dense_results[i].content = input[1].dense_results[j].content

LexicalRepeats ==
    \E i, j \in 1..Len(input[1].bm25_top) :
        /\ i < j
        /\ Bm25Corpus[input[1].bm25_top[i] + 1].content
              = Bm25Corpus[input[1].bm25_top[j] + 1].content

\* C31: whatever the dense list and the lexical list hold, repeated contents
\* included, the list retrieve returns has no two chunks of the same content
\* and at most top_k_final entries.
C31_NoDuplicateContentWithinCap ==
    (driver = "HybridRetriever.retrieve" /\ node = "returned") =>
        /\ Len(response) <= input[1].top_k_final
        /\ \A i, j \in 1..Len(response) :
              i # j => response[i].content # response[j].content

\* both lists repeat a content, more contents were fused than top_k_final
\* allows, and the list returned is full
C31_Witness ==
    /\ driver = "HybridRetriever.retrieve" /\ node = "returned"
    /\ DenseRepeats /\ LexicalRepeats
    /\ Cardinality(Candidates) > input[1].top_k_final
    /\ Len(response) = input[1].top_k_final

\* C32: a returned chunk has source "hybrid" exactly when its content is in
\* both the dense list and the lexical list, "dense" exactly when it is only
\* in the dense list, and "bm25" exactly when it is only in the lexical list.
C32_SourceTellsTheLists ==
    (driver = "HybridRetriever.retrieve" /\ node = "returned") =>
        \A i \in 1..Len(response) :
            LET content == response[i].content
            IN  /\ response[i].source = "hybrid"
                      <=> (content \in DenseContents /\ content \in LexicalContents)
                /\ response[i].source = "dense"
                      <=> (content \in DenseContents /\ content \notin LexicalContents)
                /\ response[i].source = "bm25"
                      <=> (content \notin DenseContents /\ content \in LexicalContents)

\* the sums of the terms of one list alone
DenseScore(content) ==
    SumOfTerms({r \in 0..Len(input[1].dense_results) - 1 :
                    input[1].dense_results[r + 1].content = content})

LexicalScore(content) ==
    SumOfTerms({r \in 0..Len(input[1].bm25_top) - 1 :
                    Bm25Corpus[input[1].bm25_top[r + 1] + 1].content = content})

\* score / ScoreDen by long division: the quotient in millionths and the
\* remainder left after SCORE_ROUND decimals
RECURSIVE Millionths(_, _, _)
Millionths(quotient, remainder, digits) ==
    IF digits = 0 THEN [quotient |-> quotient, remainder |-> remainder]
    ELSE Millionths(quotient * 10 + (remainder * 10) \div ScoreDen,
                    (remainder * 10) % ScoreDen, digits - 1)

InMillionths(score) == Millionths(score \div ScoreDen, score % ScoreDen, SCORE_ROUND)

\* C33 as stated: the score of each returned chunk equals the sum of
\* 1 / (60 + rank + 1) over the ranks at which its content is listed, is
\* strictly positive, and for a content in both lists exceeds the score from
\* either list alone.
C33_ScoreIsTheSumOfTerms ==
    (driver = "HybridRetriever.retrieve" /\ node = "returned") =>
        \A i \in 1..Len(response) :
            LET content == response[i].content
                exact == InMillionths(FusedScore(content))
            IN  /\ exact.remainder = 0 /\ response[i].score = exact.quotient
                /\ response[i].score > 0
                /\ (content \in DenseContents /\ content \in LexicalContents)
                      => /\ response[i].score > RoundScore(DenseScore(content))
                         /\ response[i].score > RoundScore(LexicalScore(content))

\* C33 amended: the score of each returned chunk is that sum rounded to six
\* decimals (the nearest millionth); it is strictly positive, and for a
\* content in both lists it exceeds the rounded score from either list alone.
C33_ScoreIsTheRoundedSum ==
    (driver = "HybridRetriever.retrieve" /\ node = "returned") =>
        \A i \in 1..Len(response) :
            LET content == response[i].content
                exact == InMillionths(FusedScore(content))
            IN  /\ \/ /\ response[i].score = exact.quotient
                      /\ 2 * exact.remainder <= ScoreDen
                   \/ /\ response[i].score = exact.quotient + 1
                      /\ 2 * exact.remainder >= ScoreDen
                /\ response[i].score > 0
                /\ (content \in DenseContents /\ content \in LexicalContents)
                      => /\ response[i].score > RoundScore(DenseScore(content))
                         /\ response[i].score > RoundScore(LexicalScore(content))

\* a chunk listed twice by the dense search and once by the lexical one is
\* returned with a score that the rounding moved up
C33_Witness ==
    /\ driver = "HybridRetriever.retrieve" /\ node = "returned"
    /\ \E i \in 1..Len(response) :
          /\ response[i].source = "hybrid"
          /\ response[i].content \in DenseContents \cap LexicalContents
          /\ DenseScore(response[i].content) > RrfTerm(0)
          /\ response[i].score
                = InMillionths(FusedScore(response[i].content)).quotient + 1

\* the retriever calls retrieve_context makes, in order: the semantic query
\* when it is not empty, then every exact query
CallsMade ==
    IF input[1].rag_pipeline /\ session.transcript # << >>
    THEN Len(input[1].exact)
         + (IF build_queries(session.transcript, input[1].exact).semantic # << >>
            THEN 1 ELSE 0)
    ELSE 0

\* the first call to raise, CallsMade + 1 if none does
FirstRaise ==
    First({k \in 1..CallsMade + 1 : k = CallsMade + 1 \/ input[1].outcomes[k].raises})

\* what the calls before the first raise returned, concatenated
RECURSIVE Concatenated(_)
Concatenated(k) ==
    IF k = 0 THEN << >> ELSE Concatenated(k - 1) \o input[1].outcomes[k].chunks

Issued == Concatenated(FirstRaise - 1)

FirstAt(content) == First({p \in 1..Len(Issued) : Issued[p].content = content})

MaxQuestions ==
    IF session.max_turns = 0 THEN 1
    ELSE IF Len(Catalogue) < session.max_turns THEN Len(Catalogue)
    ELSE session.max_turns

\* C36: the interview loop of the graph terminates: when coverage_check
\* routes to retrieve_context, therapist_ask has run at most
\* min(|catalogue|, max_turns) times (exactly once when max_turns = 0), and
\* under fair scheduling every auto-mode session eventually reaches
\* finalized = true, through finalize_session or through safe_exit.  hist
\* counts the node runs since the session was created, so the questions of
\* the loop are read in the session's first run.
C36_InterviewLoopTerminates ==
    /\ []((resumes = 0 /\ node = "retrieve_context") =>
            /\ hist.therapist_ask <= MaxQuestions
            /\ session.max_turns = 0 => hist.therapist_ask = 1)
    /\ ~session.interactive_mode => <>session.finalized

\* C37: in every reachable state the transcript's roles alternate
\* therapist, client, therapist, ... from a therapist turn on: no two
\* consecutive entries have the same role, whatever turn calls were made.
C37_RolesAlternate ==
    driver \in {"rest", "graph"} =>
        \A i \in 1..Len(session.transcript) :
            session.transcript[i].role = IF i % 2 = 1 THEN "therapist" ELSE "client"

\* one pass of the graph from the state s: therapist_ask, risk_check, the
\* client's or the human's reply, risk_check, coverage_check, with safe_exit
\* where a risk_check routes there
GraphPass(s, ttext, reply) ==
    LET s1 == risk_check(therapist_ask(s, ttext, agents))
        s2 == IF RouteRisk(s1) = "interactive"
              THEN [s1 EXCEPT !.transcript = Append(s1.transcript,
                                   Entry("client", reply, NoDomain, Len(s1.transcript))),
                              !.current_step = "human_input"]
              ELSE client_respond(s1, reply)
        s3 == risk_check(s2)
    IN  IF RouteRisk(s1) = "risky" THEN safe_exit(s1)
        ELSE IF RouteRisk(s3) = "risky" THEN safe_exit(s3)
        ELSE coverage_check(s3)

\* the graph from retrieve_context on: diagnostician_draft, risk_check,
\* evidence_audit, finalize_session
GraphPipeline(s, chunks, hyps, report) ==
    LET s1 == risk_check(diagnostician_draft(retrieve_context(s, chunks), hyps))
    IN  IF RouteRisk(s1) = "risky" THEN safe_exit(s1)
        ELSE finalize_session(evidence_audit(s1, report))

\* the fields the two drivers are compared on
Compared(s) ==
    [transcript |-> s.transcript, turn_count |-> s.turn_count,
     domains_covered |-> s.domains_covered, domains_pending |-> s.domains_pending,
     coverage_complete |-> s.coverage_complete, risk_detected |-> s.risk_detected,
     finalized |-> s.finalized]

\* C38: driving a session through the REST endpoints equals running the
\* graph: a completed turn call leaves the transcript, turn_count, domain
\* sets, coverage_complete, risk_detected and finalized that one pass of the
\* graph leaves for the same texts, and a finalize call leaves the state
\* that retrieve_context, diagnostician_draft, risk_check, evidence_audit
\* and finalize_session leave for the same results.
C38_RestEqualsGraph ==
    [][driver = "rest" =>
        /\ (response' = "ok" /\ session' # session) =>
              \E ttext \in Texts, reply \in Texts :
                  Compared(session') = Compared(GraphPass(session, ttext, reply))
        /\ (response' = "finalized" /\ session' # session) =>
              \E chunks \in ChunkLists, hyps \in HypothesesOf(session, agents),
                 report \in AuditReports(agents) :
                  session' = GraphPipeline(session, chunks, hyps, report)]_vars

\* C39: coverage_check is idempotent and writes only the coverage fields:
\* applied twice in a row it leaves the domains_covered, domains_pending and
\* coverage_complete of one application, and every other field (transcript,
\* turn_count, max_turns, risk_detected, finalized among them) is the one
\* of the state it was given.
C39_CoverageCheckIdempotent ==
    (driver = "coverage_check" /\ node \in {"once", "twice"}) =>
        /\ [session EXCEPT !.domains_covered = input[1].domains_covered,
                           !.domains_pending = input[1].domains_pending,
                           !.coverage_complete = input[1].coverage_complete]
              = input[1]
        /\ node = "twice" =>
              /\ session.domains_covered = response.domains_covered
              /\ session.domains_pending = response.domains_pending
              /\ session.coverage_complete = response.coverage_complete

\* a second application after a first one that added a domain to
\* domains_covered, removed one from domains_pending and set the flag
C39_Witness ==
    /\ driver = "coverage_check" /\ node = "twice"
    /\ Len(session.domains_covered) > Len(input[1].domains_covered)
    /\ Len(session.domains_pending) < Len(input[1].domains_pending)
    /\ session.domains_pending # << >>
    /\ session.coverage_complete /\ ~input[1].coverage_complete

============================================================================
